---- MODULE Spec2Model ----
(***************************************************************************)
(* Model of the data-model versioning service                              *)
(* (backend/app/services/data_model_service.py) on top of the SQLAlchemy   *)
(* session of backend/app/db/session.py.                                   *)
(*                                                                         *)
(* The database is the committed state `db`; every request runs in its own *)
(* session, whose flushed but uncommitted rows are `tx[s]`.  A session's   *)
(* rows reach `db` only through db.commit(); db.close() discards them.     *)
(* The storage is PostgreSQL at its default isolation (READ COMMITTED):    *)
(* a flushed UPDATE holds the row lock until the session commits or        *)
(* closes, and nothing else makes one request wait for another.            *)
(***************************************************************************)
EXTENDS Integers, Sequences, FiniteSets, TLC

VARIABLES db, projects, ses, tx, ncalls

\* _increment_version on its own: its argument and its return value
VARIABLES version_in, version_out

\* the dataset import of backend/app.py: the uploaded file, the DataFrame the
\* loader made of it, and what infer_schema and get_profiling_data returned
VARIABLES file, df, schema, profile

\* the order in which the installed pandas and numpy leave values of equal
\* count when value_counts sorts them: fixed for a running server
VARIABLES tie_order

\* what the import keeps: the committed rows of the tables datasets and
\* columns of database.sqlite, the files of UPLOAD_FOLDER (by dataset id), the
\* rows the request's connection has inserted and not yet committed, and the
\* response to the last request
VARIABLES datasets, columns, uploads, conn, response

serviceVars == <<db, projects, ses, tx, ncalls>>

versionVars == <<version_in, version_out>>

profilingVars == <<file, df, schema, profile, tie_order>>

storeVars == <<datasets, columns, uploads, conn, response>>

vars == <<serviceVars, versionVars, profilingVars, storeVars>>

(***************************************************************************)
(* Bounds.                                                                 *)
(***************************************************************************)
\* create_version requests started over a whole run, all sessions together
MaxCalls == 2

\* The request workers: each owns one SessionLocal() at a time.
Sessions == {"s1", "s2"}

Users == {"alice", "bob"}

(***************************************************************************)
(* Identities.  uuid.uuid4() gives a value no other row has; an identity   *)
(* is <<namespace, call, k>>: the k-th row made by the call-th request of  *)
(* a session, or the k-th seeded row.                                      *)
(***************************************************************************)
NullId == <<"null", 0, 0>>

\* an identity no row ever has (the 404 case)
NoSuchId == <<"none", 0, 0>>

SeedId(k) == <<"seed", 0, k>>

Range(f) == {f[x] : x \in DOMAIN f}

EmptyMap == [x \in {} |-> NullId]

\* rows come back in creation order
RECURSIVE SeqOfIds(_)
SeqOfIds(S) ==
    IF S = {} THEN <<>>
    ELSE LET m == CHOOSE x \in S : \A y \in S : x[3] <= y[3]
         IN  <<m>> \o SeqOfIds(S \ {m})

(***************************************************************************)
(* _increment_version.  A version is a string, modelled as a sequence of   *)
(* characters; None and "" are both <<>> (the code tests `not version`).   *)
(* The characters are ASCII: \d and int() also take the decimal digits of  *)
(* other scripts, which no string of the model holds.                      *)
(***************************************************************************)
Digits == <<"0", "1", "2", "3", "4", "5", "6", "7", "8", "9">>

IsDigit(c) == \E i \in 1..10 : Digits[i] = c

DigitVal(c) == (CHOOSE i \in 1..10 : Digits[i] = c) - 1

AllDigits(str) == Len(str) > 0 /\ \A i \in 1..Len(str) : IsDigit(str[i])

RECURSIVE ParseInt(_)
ParseInt(str) ==
    IF str = <<>> THEN 0
    ELSE 10 * ParseInt(SubSeq(str, 1, Len(str) - 1)) + DigitVal(str[Len(str)])

RECURSIVE FormatInt(_)
FormatInt(n) ==
    IF n < 10 THEN <<Digits[n + 1]>>
    ELSE FormatInt(n \div 10) \o <<Digits[(n % 10) + 1]>>

DotPositions(str) == {i \in 1..Len(str) : str[i] = "."}

\* ^(\d+)\.(\d+)\.(\d+) up to the end of the string
IsSemVer(str) ==
    /\ Cardinality(DotPositions(str)) = 2
    /\ LET d1 == CHOOSE i \in DotPositions(str) : \A j \in DotPositions(str) : i <= j
           d2 == CHOOSE i \in DotPositions(str) : \A j \in DotPositions(str) : j <= i
       IN  /\ AllDigits(SubSeq(str, 1, d1 - 1))
           /\ AllDigits(SubSeq(str, d1 + 1, d2 - 1))
           /\ AllDigits(SubSeq(str, d2 + 1, Len(str)))

\* `$` of re.match (no re.MULTILINE) matches at the end of the string and also
\* just before a line feed that ends the string: what the groups are cut from
BeforeDollar(str) ==
    IF str # <<>> /\ str[Len(str)] = "\n" THEN SubSeq(str, 1, Len(str) - 1)
    ELSE str

\* match = re.match(r"^(\d+)\.(\d+)\.(\d+)$", current_version)
ReMatch(str) == IsSemVer(BeforeDollar(str))

\* the white space int() strips from both ends, of the characters modelled
Whitespace == {" ", "\n"}

RECURSIVE Strip(_)
Strip(str) ==
    IF str = <<>> THEN str
    ELSE IF Head(str) \in Whitespace THEN Strip(Tail(str))
    ELSE IF str[Len(str)] \in Whitespace THEN Strip(SubSeq(str, 1, Len(str) - 1))
    ELSE str

\* the text of int(x) after the strip and the sign: digits, with single
\* underscores allowed between two digits
Unsigned(str) ==
    LET s == Strip(str)
    IN  IF s # <<>> /\ Head(s) \in {"+", "-"} THEN Tail(s) ELSE s

\* int(current_version) returns (does not raise ValueError)
IsIntLiteral(str) ==
    LET u == Unsigned(str)
    IN  /\ u # <<>>
        /\ \A i \in 1..Len(u) :
              \/ IsDigit(u[i])
              \/ /\ u[i] = "_"
                 /\ 1 < i /\ i < Len(u)
                 /\ IsDigit(u[i - 1]) /\ IsDigit(u[i + 1])

\* version_num = int(current_version)
IntOf(str) ==
    LET u == Unsigned(str)
        digits == SelectSeq(u, LAMBDA c : c # "_")
    IN  IF Head(Strip(str)) = "-" THEN 0 - ParseInt(digits) ELSE ParseInt(digits)

\* str(n) of a Python int
StrOfInt(n) == IF n < 0 THEN <<"-">> \o FormatInt(0 - n) ELSE FormatInt(n)

_increment_version(current_version) ==
    IF current_version = <<>> THEN <<"1", ".", "0", ".", "0">>
    ELSE IF ReMatch(current_version)
    THEN LET matched == BeforeDollar(current_version)
             d2 == CHOOSE i \in DotPositions(matched) :
                       \A j \in DotPositions(matched) : j <= i
             patch == ParseInt(SubSeq(matched, d2 + 1, Len(matched)))
             d1 == CHOOSE i \in DotPositions(matched) :
                       \A j \in DotPositions(matched) : i <= j
             major == ParseInt(SubSeq(matched, 1, d1 - 1))
             minor == ParseInt(SubSeq(matched, d1 + 1, d2 - 1))
         IN  StrOfInt(major) \o <<".">> \o StrOfInt(minor) \o <<".">>
                 \o StrOfInt(patch + 1)
    ELSE IF IsIntLiteral(current_version)
    THEN StrOfInt(IntOf(current_version) + 1)
    ELSE current_version \o <<"-", "n", "e", "w">>

(***************************************************************************)
(* Tables.  One record per row of a table of backend/app/models, keyed by  *)
(* the row's identity; the fields are the columns create_version reads,    *)
(* and for a data model updated_at (ModelBase: onupdate=func.now()), which  *)
(* every UPDATE of the row sets to a later time: the model counts the       *)
(* UPDATEs the row has had.                                                 *)
(***************************************************************************)
NoModel ==
    [name |-> "", description |-> "", model_type |-> "", project_id |-> NullId,
     owner_id |-> "", parent_model_id |-> NullId, version |-> <<>>,
     database_dialect |-> "", layout_data |-> "", metadata |-> "", tags |-> {},
     is_latest_version |-> FALSE, updated_at |-> 0]

\* the tables a session can write
EmptyTables ==
    [data_models |-> <<>>, entities |-> <<>>, attributes |-> <<>>,
     relationships |-> <<>>, relationship_attributes |-> <<>>]

\* a transaction without a flushed statement: no INSERT, and no UPDATE of a
\* data_models row (`updated` holds the rows whose is_latest_version it cleared)
EmptyTx == [inserted |-> EmptyTables, updated |-> {}]

(***************************************************************************)
(* Seeded database contents: two root models of one project.  Model 1 has  *)
(* entities E1 (attributes A1, A2) and E2 (attribute A3) and relationship  *)
(* R1 from E1; model 2 is another lineage with entity E3 (attribute A4).   *)
(* The seeds differ in R1's target and attribute mappings, so that the     *)
(* clean graph, the graph of the specification's example, and graphs with  *)
(* an endpoint or a mapped attribute outside the model all occur.          *)
(***************************************************************************)
P1 == SeedId(1)
M1 == SeedId(1)
M2 == SeedId(2)
E1 == SeedId(1)
E2 == SeedId(2)
E3 == SeedId(3)
A1 == SeedId(1)
A2 == SeedId(2)
A3 == SeedId(3)
A4 == SeedId(4)
R1 == SeedId(1)

SeedModels ==
    (M1 :> [name |-> "sales", description |-> "sales model",
            model_type |-> "physical", project_id |-> P1, owner_id |-> "alice",
            parent_model_id |-> NullId, version |-> <<"1", ".", "0", ".", "9">>,
            database_dialect |-> "postgresql", layout_data |-> "grid",
            metadata |-> "meta-m1", tags |-> {"core"}, is_latest_version |-> TRUE,
            updated_at |-> 0])
    @@ (M2 :> [name |-> "hr", description |-> "hr model",
               model_type |-> "logical", project_id |-> P1, owner_id |-> "alice",
               parent_model_id |-> NullId, version |-> <<>>,
               database_dialect |-> "mysql", layout_data |-> "tree",
               metadata |-> "meta-m2", tags |-> {"hr"}, is_latest_version |-> TRUE,
               updated_at |-> 0])

SeedEntity(data_model_id, name, table_name, position_x) ==
    [data_model_id |-> data_model_id, name |-> name, description |-> name,
     schema_name |-> "public", table_name |-> table_name, is_view |-> FALSE,
     position_x |-> position_x, position_y |-> 20, color |-> "red",
     metadata |-> table_name]

SeedEntities ==
    (E1 :> SeedEntity(M1, "customer", "customers", 10))
    @@ (E2 :> SeedEntity(M1, "order", "orders", 30))
    @@ (E3 :> SeedEntity(M2, "employee", "employees", 50))

SeedAttribute(entity_id, name, data_type, is_primary_key, position) ==
    [entity_id |-> entity_id, name |-> name, data_type |-> data_type,
     description |-> name, length |-> 255, precision |-> 10, scale |-> 0,
     is_nullable |-> ~is_primary_key, is_primary_key |-> is_primary_key,
     is_unique |-> is_primary_key, default_value |-> "0",
     check_constraint |-> "", position |-> position, metadata |-> name]

SeedAttributes ==
    (A1 :> SeedAttribute(E1, "id", "INTEGER", TRUE, 1))
    @@ (A2 :> SeedAttribute(E1, "email", "VARCHAR", FALSE, 2))
    @@ (A3 :> SeedAttribute(E2, "customer_id", "INTEGER", FALSE, 1))
    @@ (A4 :> SeedAttribute(E3, "badge", "INTEGER", TRUE, 1))

SeedRelationship(target) ==
    (R1 :> [data_model_id |-> M1, name |-> "places",
            description |-> "customer places order", source_entity_id |-> E1,
            target_entity_id |-> target, relationship_type |-> "one_to_many",
            identifying |-> FALSE, cardinality_source |-> "1",
            cardinality_target |-> "0..*",
            verbalize_source_to_target |-> "Customer places Orders",
            verbalize_target_to_source |-> "Order belongs to Customer",
            metadata |-> "meta-r1"])

SeedMapping(source_attribute_id, target_attribute_id) ==
    [relationship_id |-> R1, source_attribute_id |-> source_attribute_id,
     target_attribute_id |-> target_attribute_id]

\* the attribute mappings a seed may hold, by identity
SeedMappingRows ==
    (SeedId(1) :> SeedMapping(A1, A3))
    @@ (SeedId(2) :> SeedMapping(A2, A3))
    @@ (SeedId(3) :> SeedMapping(A1, A4))

Restrict(f, S) == [x \in S |-> f[x]]

SeedGraphs ==
    { [target |-> E2, mappings |-> {}],
      [target |-> E2, mappings |-> {SeedId(1), SeedId(2)}],
      [target |-> E2, mappings |-> {SeedId(3)}],
      [target |-> E3, mappings |-> {}],
      [target |-> E3, mappings |-> {SeedId(1)}] }

SeedDb(g) ==
    [data_models |-> SeedModels, entities |-> SeedEntities,
     attributes |-> SeedAttributes, relationships |-> SeedRelationship(g.target),
     relationship_attributes |-> Restrict(SeedMappingRows, g.mappings)]

\* projects.is_public and the project_members table, for the one project
SeedProjects ==
    { (P1 :> [owner_id |-> "alice", is_public |-> FALSE, members |-> {}]),
      (P1 :> [owner_id |-> "alice", is_public |-> FALSE, members |-> {"bob"}]),
      (P1 :> [owner_id |-> "alice", is_public |-> TRUE, members |-> {}]) }

(***************************************************************************)
(* The session: SessionLocal(autocommit=False, autoflush=False).           *)
(***************************************************************************)
TableNames == DOMAIN EmptyTables

\* the rows of t2 added to those of t1
AddRows(t1, t2) == [n \in TableNames |-> t2[n] @@ t1[n]]

ClearLatest_ClearsTags(models, ids) ==
    [m \in DOMAIN models |->
        IF m \in ids THEN [models[m] EXCEPT !.is_latest_version = FALSE, !.tags = {},
                                            !.updated_at = @ + 1]
        ELSE models[m]]

ClearLatest(models, ids) ==
    [m \in DOMAIN models |->
        IF m \in ids THEN [models[m] EXCEPT !.is_latest_version = FALSE,
                                            !.updated_at = @ + 1]
        ELSE models[m]]

\* the tables d with the statements of transaction t applied
Apply(d, t) ==
    LET added == AddRows(d, t.inserted)
    IN  [added EXCEPT !.data_models = ClearLatest(added.data_models, t.updated)]

AfterFlush_Autocommit(d, t, w) ==
    [db |-> Apply(d, w), tx |-> t]

\* db.flush(): the statements w go to the database inside the session's open
\* transaction; the committed tables d stay as they are
AfterFlush(d, t, w) ==
    [db |-> d,
     tx |-> [inserted |-> AddRows(t.inserted, w.inserted),
             updated |-> t.updated \cup w.updated]]

\* db.commit(): everything flushed becomes visible in one step
AfterCommit(d, t) == Apply(d, t)

AfterClose_Commits(d, t) == Apply(d, t)

\* db.close() in get_db's finally: an open transaction is rolled back
AfterClose(d, t) == d

\* what the queries of a session see: committed rows and its own flushed ones
Visible(s) == Apply(db, tx[s])

\* the row lock a flushed UPDATE of data_models row m holds
LockedByOther(s, m) == \E t \in Sessions \ {s} : m \in tx[t].updated

(***************************************************************************)
(* Names the code uses and what the repository defines.                    *)
(***************************************************************************)
\* the columns and relationships of app.models.project.Project
ProjectAttributes ==
    {"id", "created_at", "updated_at", "name", "description", "is_active",
     "is_public", "is_template", "industry", "tags", "settings", "owner_id",
     "owner", "data_models", "members"}

\* the names bound in module app.services.data_model_service
ServiceNames ==
    {"DataModel", "Entity", "Attribute", "Relationship", "ModelType",
     "DataModelCreate", "DataModelUpdate", "EntityCreate", "EntityUpdate",
     "AttributeCreate", "AttributeUpdate", "RelationshipCreate",
     "RelationshipUpdate", "DDLGenerationOptions", "GeneratedDDL",
     "project_service", "Session", "HTTPException", "status", "uuid", "re",
     "UUID", "datetime", "Optional", "List", "Dict", "Any", "Set", "Tuple"}

(***************************************************************************)
(* get_project_by_id / get_data_model_by_id: "ok" or the error raised.     *)
(***************************************************************************)
get_project_by_id(project_id, user_id) ==
    IF project_id \notin DOMAIN projects THEN "HTTP_404_NOT_FOUND"
    ELSE LET project == projects[project_id]
         IN  IF ~project.is_public /\ project.owner_id # user_id
             THEN \* any(user.id == user_id for user in project.users)
                  IF "users" \notin ProjectAttributes THEN "AttributeError"
                  ELSE IF user_id \in project.members THEN "ok"
                  ELSE "HTTP_403_FORBIDDEN"
             ELSE "ok"

get_data_model_by_id(d, model_id, user_id) ==
    IF model_id \notin DOMAIN d.data_models THEN "HTTP_404_NOT_FOUND"
    ELSE get_project_by_id(d.data_models[model_id].project_id, user_id)

(***************************************************************************)
(* create_version: the rows it builds.                                     *)
(***************************************************************************)
NewDataModel_DropsTags(source_model, source_id, user_id) ==
    [source_model EXCEPT !.owner_id = user_id, !.parent_model_id = source_id,
                         !.version = _increment_version(source_model.version),
                         !.tags = {}, !.is_latest_version = TRUE, !.updated_at = 0]

NewDataModel_KeepsParent(source_model, source_id, user_id) ==
    [source_model EXCEPT !.owner_id = user_id,
                         !.version = _increment_version(source_model.version),
                         !.is_latest_version = TRUE, !.updated_at = 0]

\* new_model = DataModel(name=source_model.name, ..., is_latest_version=True)
NewDataModel(source_model, source_id, user_id) ==
    [name |-> source_model.name,
     description |-> source_model.description,
     model_type |-> source_model.model_type,
     project_id |-> source_model.project_id,
     owner_id |-> user_id,
     parent_model_id |-> source_id,
     version |-> _increment_version(source_model.version),
     database_dialect |-> source_model.database_dialect,
     layout_data |-> source_model.layout_data,
     metadata |-> source_model.metadata,
     tags |-> source_model.tags,
     is_latest_version |-> TRUE,
     updated_at |-> 0]

NewEntity_InSourceModel(source_entity, new_model_id) == source_entity

\* new_entity = Entity(data_model_id=new_model.id, name=source_entity.name, ...)
NewEntity(source_entity, new_model_id) ==
    [data_model_id |-> new_model_id,
     name |-> source_entity.name,
     description |-> source_entity.description,
     schema_name |-> source_entity.schema_name,
     table_name |-> source_entity.table_name,
     is_view |-> source_entity.is_view,
     position_x |-> source_entity.position_x,
     position_y |-> source_entity.position_y,
     color |-> source_entity.color,
     metadata |-> source_entity.metadata]

NewAttribute_DropsPosition(source_attr, new_entity_id) ==
    [source_attr EXCEPT !.entity_id = new_entity_id, !.position = 0]

\* new_attr = Attribute(entity_id=new_entity.id, name=source_attr.name, ...)
NewAttribute(source_attr, new_entity_id) ==
    [entity_id |-> new_entity_id,
     name |-> source_attr.name,
     data_type |-> source_attr.data_type,
     description |-> source_attr.description,
     length |-> source_attr.length,
     precision |-> source_attr.precision,
     scale |-> source_attr.scale,
     is_nullable |-> source_attr.is_nullable,
     is_primary_key |-> source_attr.is_primary_key,
     is_unique |-> source_attr.is_unique,
     default_value |-> source_attr.default_value,
     check_constraint |-> source_attr.check_constraint,
     position |-> source_attr.position,
     metadata |-> source_attr.metadata]

MapOrKeep(id_map, id) == IF id \in DOMAIN id_map THEN id_map[id] ELSE id

NewRelationships_KeepsUnmapped(source_rel, new_model_id, entity_id_map) ==
    <<[source_rel EXCEPT
          !.data_model_id = new_model_id,
          !.source_entity_id = MapOrKeep(entity_id_map, source_rel.source_entity_id),
          !.target_entity_id = MapOrKeep(entity_id_map, source_rel.target_entity_id)]>>

\* The body of the relationship loop up to db.add(new_rel): no row when the
\* source or target entity was not copied, else the one new Relationship.
NewRelationships(source_rel, new_model_id, entity_id_map) ==
    IF \/ source_rel.source_entity_id \notin DOMAIN entity_id_map
       \/ source_rel.target_entity_id \notin DOMAIN entity_id_map
    THEN <<>>
    ELSE <<[data_model_id |-> new_model_id,
            name |-> source_rel.name,
            description |-> source_rel.description,
            source_entity_id |-> entity_id_map[source_rel.source_entity_id],
            target_entity_id |-> entity_id_map[source_rel.target_entity_id],
            relationship_type |-> source_rel.relationship_type,
            identifying |-> source_rel.identifying,
            cardinality_source |-> source_rel.cardinality_source,
            cardinality_target |-> source_rel.cardinality_target,
            verbalize_source_to_target |-> source_rel.verbalize_source_to_target,
            verbalize_target_to_source |-> source_rel.verbalize_target_to_source,
            metadata |-> source_rel.metadata]>>

\* the skip test of the attribute-mapping loop
MappingSkipped(mapping, attribute_id_map) ==
    \/ mapping.source_attribute_id \notin DOMAIN attribute_id_map
    \/ mapping.target_attribute_id \notin DOMAIN attribute_id_map

\* the arguments of RelationshipAttributeMapping(...)
NewMapping(mapping, new_rel_id, attribute_id_map) ==
    [relationship_id |-> new_rel_id,
     source_attribute_id |-> attribute_id_map[mapping.source_attribute_id],
     target_attribute_id |-> attribute_id_map[mapping.target_attribute_id]]

(***************************************************************************)
(* A request's position in create_version.                                 *)
(*   pc: "idle"          no request                                        *)
(*       "loaded"        get_data_model_by_id returned source_model        *)
(*       "entities"      in the entity loop (attributes: the inner loop)   *)
(*       "relationships" in the relationship loop (attribute_mappings:     *)
(*                       the inner loop)                                   *)
(*       "mappings"      in create_relationship's loop over the request's  *)
(*                       attribute_mappings, the relationship flushed      *)
(*       "commit"        at db.commit()                                    *)
(*       "returned"      create_version returned new_model                 *)
(*       "raised"        an exception left create_version (`error`)        *)
(***************************************************************************)
\* no RelationshipCreate body: the request is not a create_relationship
NoRelationshipData ==
    [source_entity_id |-> NullId, target_entity_id |-> NullId,
     attribute_mappings |-> <<>>]

IdleSession ==
    [pc |-> "idle", model_id |-> NullId, user_id |-> "", error |-> "",
     relationship_data |-> NoRelationshipData,
     source_model |-> NoModel, new_model_id |-> NullId,
     entity_id_map |-> EmptyMap, attribute_id_map |-> EmptyMap,
     entities |-> <<>>, attributes |-> <<>>, new_entity_id |-> NullId,
     relationships |-> <<>>, attribute_mappings |-> <<>>, new_rel_id |-> NullId,
     call |-> 0, k |-> 0]

FreshId_ReusesSourceId(s, r) ==
    IF r.k = 0 THEN r.model_id ELSE <<s, r.call, r.k + 1>>

\* uuid.uuid4() for the next row of request r
FreshId(s, r) == <<s, r.call, r.k + 1>>

EntitiesOf(d, model_id) ==
    {e \in DOMAIN d.entities : d.entities[e].data_model_id = model_id}

AttributesOf(d, entity_id) ==
    {a \in DOMAIN d.attributes : d.attributes[a].entity_id = entity_id}

RelationshipsOf(d, model_id) ==
    {r \in DOMAIN d.relationships : d.relationships[r].data_model_id = model_id}

MappingsOf(d, rel_id) ==
    {m \in DOMAIN d.relationship_attributes :
        d.relationship_attributes[m].relationship_id = rel_id}

Advance_RelationshipsPerEntity(r, d) ==
    LET r1 == IF r.pc = "entities" /\ r.attributes = <<>>
              THEN [r EXCEPT !.pc = "relationships",
                             !.relationships =
                                 SeqOfIds(RelationshipsOf(d, r.model_id))]
              ELSE r
    IN  IF /\ r1.pc = "relationships"
           /\ r1.relationships = <<>>
           /\ r1.attribute_mappings = <<>>
        THEN [r1 EXCEPT !.pc = "commit"]
        ELSE r1

\* Loop control: an exhausted entity loop goes on to the relationship loop
\* (source_model.relationships is loaded then), an exhausted relationship loop
\* to db.commit().
Advance(r, d) ==
    LET r1 == IF r.pc = "entities" /\ r.entities = <<>> /\ r.attributes = <<>>
              THEN [r EXCEPT !.pc = "relationships",
                             !.relationships =
                                 SeqOfIds(RelationshipsOf(d, r.model_id))]
              ELSE r
    IN  IF /\ r1.pc = "relationships"
           /\ r1.relationships = <<>>
           /\ r1.attribute_mappings = <<>>
        THEN [r1 EXCEPT !.pc = "commit"]
        ELSE r1

Calls == LET RECURSIVE Sum(_)
             Sum(S) == IF S = {} THEN 0
                       ELSE LET x == CHOOSE y \in S : TRUE
                            IN  ncalls[x] + Sum(S \ {x})
         IN  Sum(Sessions)

\* _increment_version is not under test on its own
NoReturn == <<>>

NoVersionCall == version_in = <<>> /\ version_out = NoReturn

\* a connection without uncommitted rows
NoRows == [datasets |-> {}, columns |-> {}]

NoResponse == [request |-> "none", id |-> 0, status |-> 0, body |-> ""]

\* no dataset was imported and none is being imported
NoImport ==
    /\ file = [file_ext |-> "", columns |-> <<>>, pc |-> "none", dataset_id |-> 0]
    /\ df = <<>>
    /\ schema = <<>>
    /\ profile = <<>>
    /\ tie_order = "first_seen"
    /\ datasets = {}
    /\ columns = {}
    /\ uploads = {}
    /\ conn = NoRows
    /\ response = NoResponse

Init ==
    /\ \E g \in SeedGraphs : db = SeedDb(g)
    /\ projects \in SeedProjects
    /\ ses = [s \in Sessions |-> IdleSession]
    /\ tx = [s \in Sessions |-> EmptyTx]
    /\ ncalls = [s \in Sessions |-> 0]
    /\ NoVersionCall
    /\ NoImport

(***************************************************************************)
(* create_version(db, model_id, user_id), one action per statement group   *)
(* that ends in a flush, a commit or an exception.                         *)
(***************************************************************************)
\* source_model = get_data_model_by_id(db, model_id, user_id)
Load(s, model_id, user_id) ==
    /\ ses[s].pc = "idle"
    /\ Calls < MaxCalls
    /\ ncalls' = [ncalls EXCEPT ![s] = @ + 1]
    /\ LET found == get_data_model_by_id(db, model_id, user_id)
           r == [IdleSession EXCEPT !.model_id = model_id, !.user_id = user_id,
                                    !.call = ncalls[s] + 1]
       IN  ses' = [ses EXCEPT ![s] =
                IF found = "ok"
                THEN [r EXCEPT !.pc = "loaded",
                               !.source_model = db.data_models[model_id]]
                ELSE [r EXCEPT !.pc = "raised", !.error = found]]
    /\ UNCHANGED <<db, projects, tx, versionVars, profilingVars, storeVars>>

\* new_model = DataModel(...); source_model.is_latest_version = False;
\* db.add(source_model); db.add(new_model); db.flush()
\* The UPDATE is emitted only when the attribute changed, and waits for the row
\* lock while another open transaction has updated the same row.
FlipAndFlush(s) ==
    LET r == ses[s]
        new_id == FreshId(s, r)
        flipped == IF r.source_model.is_latest_version THEN {r.model_id} ELSE {}
        w == [inserted |->
                 [EmptyTables EXCEPT !.data_models =
                     new_id :> NewDataModel(r.source_model, r.model_id, r.user_id)],
              updated |-> flipped]
        after == AfterFlush(db, tx[s], w)
    IN  /\ r.pc = "loaded"
        /\ \A m \in flipped : ~LockedByOther(s, m)
        /\ db' = after.db
        /\ tx' = [tx EXCEPT ![s] = after.tx]
        /\ ses' = [ses EXCEPT ![s] =
               Advance([r EXCEPT !.pc = "entities", !.new_model_id = new_id,
                                 !.k = @ + 1,
                                 !.entities =
                                     SeqOfIds(EntitiesOf(Visible(s), r.model_id))],
                       Visible(s))]
        /\ UNCHANGED <<projects, ncalls, versionVars, profilingVars, storeVars>>

\* for source_entity in source_model.entities: new_entity = Entity(...);
\* db.add(new_entity); db.flush(); entity_id_map[source_entity.id] = new_entity.id
CopyEntity(s) ==
    LET r == ses[s]
        source_id == Head(r.entities)
        new_id == FreshId(s, r)
        w == [inserted |->
                 [EmptyTables EXCEPT !.entities =
                     new_id :> NewEntity(Visible(s).entities[source_id],
                                         r.new_model_id)],
              updated |-> {}]
        after == AfterFlush(db, tx[s], w)
    IN  /\ r.pc = "entities"
        /\ r.attributes = <<>>
        /\ r.entities # <<>>
        /\ db' = after.db
        /\ tx' = [tx EXCEPT ![s] = after.tx]
        /\ ses' = [ses EXCEPT ![s] =
               Advance([r EXCEPT !.entities = Tail(@), !.k = @ + 1,
                                 !.new_entity_id = new_id,
                                 !.entity_id_map = @ @@ (source_id :> new_id),
                                 !.attributes =
                                     SeqOfIds(AttributesOf(Visible(s), source_id))],
                       Visible(s))]
        /\ UNCHANGED <<projects, ncalls, versionVars, profilingVars, storeVars>>

\* for source_attr in source_entity.attributes: new_attr = Attribute(...);
\* db.add(new_attr); db.flush(); attribute_id_map[source_attr.id] = new_attr.id
CopyAttribute(s) ==
    LET r == ses[s]
        source_id == Head(r.attributes)
        new_id == FreshId(s, r)
        w == [inserted |->
                 [EmptyTables EXCEPT !.attributes =
                     new_id :> NewAttribute(Visible(s).attributes[source_id],
                                            r.new_entity_id)],
              updated |-> {}]
        after == AfterFlush(db, tx[s], w)
    IN  /\ r.pc = "entities"
        /\ r.attributes # <<>>
        /\ db' = after.db
        /\ tx' = [tx EXCEPT ![s] = after.tx]
        /\ ses' = [ses EXCEPT ![s] =
               Advance([r EXCEPT !.attributes = Tail(@), !.k = @ + 1,
                                 !.attribute_id_map = @ @@ (source_id :> new_id)],
                       Visible(s))]
        /\ UNCHANGED <<projects, ncalls, versionVars, profilingVars, storeVars>>

\* for source_rel in source_model.relationships: skip, or new_rel =
\* Relationship(...); db.add(new_rel); db.flush()
CopyRelationship(s) ==
    LET r == ses[s]
        source_id == Head(r.relationships)
        new_id == FreshId(s, r)
        rows == NewRelationships(Visible(s).relationships[source_id],
                                 r.new_model_id, r.entity_id_map)
        w == [inserted |->
                 [EmptyTables EXCEPT !.relationships =
                     IF rows = <<>> THEN <<>> ELSE new_id :> rows[1]],
              updated |-> {}]
        after == AfterFlush(db, tx[s], w)
    IN  /\ r.pc = "relationships"
        /\ r.attribute_mappings = <<>>
        /\ r.relationships # <<>>
        /\ db' = after.db
        /\ tx' = [tx EXCEPT ![s] = after.tx]
        /\ ses' = [ses EXCEPT ![s] =
               Advance(IF rows = <<>>
                       THEN [r EXCEPT !.relationships = Tail(@)]
                       ELSE [r EXCEPT !.relationships = Tail(@), !.k = @ + 1,
                                      !.new_rel_id = new_id,
                                      !.attribute_mappings =
                                          SeqOfIds(MappingsOf(Visible(s), source_id))],
                       Visible(s))]
        /\ UNCHANGED <<projects, ncalls, versionVars, profilingVars, storeVars>>

\* for mapping in source_rel.attribute_mappings: skip, or new_mapping =
\* RelationshipAttributeMapping(...); db.add(new_mapping)
\* The module binds no name RelationshipAttributeMapping (the model class is
\* RelationshipAttribute and is not imported), so the call raises NameError.
CopyMapping(s) ==
    LET r == ses[s]
        source_id == Head(r.attribute_mappings)
        mapping == Visible(s).relationship_attributes[source_id]
        new_id == FreshId(s, r)
    IN  /\ r.pc = "relationships"
        /\ r.attribute_mappings # <<>>
        /\ IF MappingSkipped(mapping, r.attribute_id_map)
           THEN /\ ses' = [ses EXCEPT ![s] =
                       Advance([r EXCEPT !.attribute_mappings = Tail(@)], Visible(s))]
                /\ UNCHANGED <<db, tx>>
           ELSE IF "RelationshipAttributeMapping" \notin ServiceNames
           THEN /\ ses' = [ses EXCEPT ![s] =
                       [r EXCEPT !.pc = "raised", !.error = "NameError"]]
                /\ UNCHANGED <<db, tx>>
           ELSE \* db.add(new_mapping): pending until the flush of db.commit()
                LET w == [inserted |->
                             [EmptyTables EXCEPT !.relationship_attributes =
                                 new_id :> NewMapping(mapping, r.new_rel_id,
                                                      r.attribute_id_map)],
                          updated |-> {}]
                    after == AfterFlush(db, tx[s], w)
                IN  /\ db' = after.db
                    /\ tx' = [tx EXCEPT ![s] = after.tx]
                    /\ ses' = [ses EXCEPT ![s] =
                           Advance([r EXCEPT !.attribute_mappings = Tail(@),
                                             !.k = @ + 1],
                                   Visible(s))]
        /\ UNCHANGED <<projects, ncalls, versionVars, profilingVars, storeVars>>

\* db.commit(); db.refresh(new_model); return new_model
Commit(s) ==
    /\ ses[s].pc = "commit"
    /\ db' = AfterCommit(db, tx[s])
    /\ tx' = [tx EXCEPT ![s] = EmptyTx]
    /\ ses' = [ses EXCEPT ![s].pc = "returned"]
    /\ UNCHANGED <<projects, ncalls, versionVars, profilingVars, storeVars>>

\* A statement sent to the database fails (connection lost, constraint, ...):
\* the flush or commit raises and the exception leaves create_version.
StorageError(s) ==
    /\ ses[s].pc \in {"loaded", "entities", "relationships", "commit"}
    /\ ses' = [ses EXCEPT ![s].pc = "raised", ![s].error = "StorageError"]
    /\ UNCHANGED <<db, projects, tx, ncalls, versionVars, profilingVars, storeVars>>

\* get_db: finally: db.close(), after the response or the exception
Close(s) ==
    /\ ses[s].pc \in {"returned", "raised"}
    /\ db' = AfterClose(db, tx[s])
    /\ tx' = [tx EXCEPT ![s] = EmptyTx]
    /\ ses' = [ses EXCEPT ![s] = IdleSession]
    /\ UNCHANGED <<projects, ncalls, versionVars, profilingVars, storeVars>>

\* the model identities a request may name: every committed model, and one
\* that does not exist
Requestable == DOMAIN db.data_models \cup {NoSuchId}

Step(s) ==
    \/ \E model_id \in Requestable, user_id \in Users : Load(s, model_id, user_id)
    \/ FlipAndFlush(s)
    \/ CopyEntity(s)
    \/ CopyAttribute(s)
    \/ CopyRelationship(s)
    \/ CopyMapping(s)
    \/ Commit(s)
    \/ StorageError(s)
    \/ Close(s)

Next == \E s \in Sessions : Step(s)

Spec == Init /\ [][Next]_vars

\* One request at a time: a request starts only when no other is under way.
Quiet(s) == \A t \in Sessions \ {s} : ses[t].pc = "idle"

NextSeq == \E s \in Sessions : Quiet(s) /\ Step(s)

SpecSeq == Init /\ [][NextSeq]_vars

(***************************************************************************)
(* create_data_model(db, model_data, user_id), one action per statement    *)
(* group that ends in a flush, a commit or an exception.  create_entity    *)
(* and create_attribute run on the caller's session and commit it.         *)
(***************************************************************************)
\* model_data.entities of a request: per entity the names of its attributes
EntityLists ==
    { <<>>,
      << <<>> >>,
      << <<"sku", "note">> >>,
      << <<"sku">>, <<"sku">> >>,
      << <<>>, <<"sku">> >> }

\* DataModel(**model_dict): the request's fields, owner_id = user_id, and the
\* column defaults
DataModelOf(project_id, user_id) ==
    [NoModel EXCEPT !.name = "inventory", !.description = "inventory model",
                    !.model_type = "physical", !.project_id = project_id,
                    !.owner_id = user_id, !.database_dialect = "postgresql",
                    !.is_latest_version = TRUE]

\* project_service.get_project_by_id; data_model = DataModel(**model_dict);
\* db.add(data_model); db.flush()
CreateDataModel(s, project_id, user_id, entities) ==
    LET found == get_project_by_id(project_id, user_id)
        r == [IdleSession EXCEPT !.user_id = user_id, !.call = ncalls[s] + 1]
        new_id == FreshId(s, r)
        w == [inserted |->
                 [EmptyTables EXCEPT !.data_models =
                     new_id :> DataModelOf(project_id, user_id)],
              updated |-> {}]
        after == AfterFlush(db, tx[s], w)
    IN  /\ ses[s].pc = "idle"
        /\ Calls < MaxCalls
        /\ ncalls' = [ncalls EXCEPT ![s] = @ + 1]
        /\ IF found = "ok"
           THEN /\ db' = after.db
                /\ tx' = [tx EXCEPT ![s] = after.tx]
                /\ ses' = [ses EXCEPT ![s] =
                       [r EXCEPT !.pc = IF entities = <<>> THEN "commit"
                                        ELSE "entity",
                                 !.new_model_id = new_id, !.k = @ + 1,
                                 !.entities = entities]]
           ELSE /\ ses' = [ses EXCEPT ![s] =
                       [r EXCEPT !.pc = "raised", !.error = found]]
                /\ UNCHANGED <<db, tx>>
        /\ UNCHANGED <<projects, versionVars, profilingVars, storeVars>>

\* create_entity: entity = Entity(**entity_dict); db.add(entity); db.flush()
AddEntity(s) ==
    LET r == ses[s]
        new_id == FreshId(s, r)
        w == [inserted |->
                 [EmptyTables EXCEPT !.entities =
                     new_id :> SeedEntity(r.new_model_id, "product", "products", 70)],
              updated |-> {}]
        after == AfterFlush(db, tx[s], w)
    IN  /\ r.pc = "entity"
        /\ db' = after.db
        /\ tx' = [tx EXCEPT ![s] = after.tx]
        /\ ses' = [ses EXCEPT ![s] =
               [r EXCEPT !.pc = IF Head(r.entities) = <<>> THEN "entity_commit"
                                ELSE "attribute",
                         !.new_entity_id = new_id, !.k = @ + 1,
                         !.attributes = Head(r.entities),
                         !.entities = Tail(@)]]
        /\ UNCHANGED <<projects, ncalls, versionVars, profilingVars, storeVars>>

\* create_attribute: attribute = Attribute(**attribute_dict); db.add(attribute);
\* db.commit(); db.refresh(attribute)
AddAttribute(s) ==
    LET r == ses[s]
        new_id == FreshId(s, r)
        w == [inserted |->
                 [EmptyTables EXCEPT !.attributes =
                     new_id :> SeedAttribute(r.new_entity_id, Head(r.attributes),
                                             "VARCHAR", FALSE, 1)],
              updated |-> {}]
        after == AfterFlush(db, tx[s], w)
    IN  /\ r.pc = "attribute"
        /\ db' = AfterCommit(after.db, after.tx)
        /\ tx' = [tx EXCEPT ![s] = EmptyTx]
        /\ ses' = [ses EXCEPT ![s] =
               [r EXCEPT !.pc = IF Tail(r.attributes) = <<>> THEN "entity_commit"
                                ELSE "attribute",
                         !.k = @ + 1, !.attributes = Tail(@)]]
        /\ UNCHANGED <<projects, ncalls, versionVars, profilingVars, storeVars>>

\* create_entity, after its attributes: db.commit(); db.refresh(entity)
CommitEntity(s) ==
    LET r == ses[s]
    IN  /\ r.pc = "entity_commit"
        /\ db' = AfterCommit(db, tx[s])
        /\ tx' = [tx EXCEPT ![s] = EmptyTx]
        /\ ses' = [ses EXCEPT ![s].pc = IF r.entities = <<>> THEN "commit"
                                        ELSE "entity"]
        /\ UNCHANGED <<projects, ncalls, versionVars, profilingVars, storeVars>>

\* A statement of create_entity or create_attribute fails (connection lost,
\* constraint, ...): the flush or commit raises and the exception leaves
\* create_data_model, which catches nothing.
EntityError(s) ==
    /\ ses[s].pc \in {"entity", "attribute", "entity_commit"}
    /\ ses' = [ses EXCEPT ![s].pc = "raised", ![s].error = "EntityStorageError"]
    /\ UNCHANGED <<db, projects, tx, ncalls, versionVars, profilingVars, storeVars>>

(***************************************************************************)
(* _increment_version applied to every string of at most MaxLen characters *)
(* of VersionChars: digits that carry ("9") and that lead ("0"), the dot,  *)
(* a letter, a sign, an underscore and the two kinds of white space.       *)
(***************************************************************************)
MaxLen == 6

VersionChars == {"0", "9", ".", "a", "-", "_", " ", "\n"}

VersionStrings == UNION {[1..n -> VersionChars] : n \in 0..MaxLen}

\* no request is being served
ServiceIdle ==
    /\ db = EmptyTables
    /\ projects = EmptyMap
    /\ ses = [s \in Sessions |-> IdleSession]
    /\ tx = [s \in Sessions |-> EmptyTx]
    /\ ncalls = [s \in Sessions |-> 0]

InitVersion ==
    /\ version_in \in VersionStrings
    /\ version_out = NoReturn
    /\ ServiceIdle
    /\ NoImport

\* new_version = _increment_version(source_model.version)
IncrementVersion ==
    /\ version_out = NoReturn
    /\ version_out' = _increment_version(version_in)
    /\ UNCHANGED <<version_in, serviceVars, profilingVars, storeVars>>

SpecVersion == InitVersion /\ [][IncrementVersion]_vars

(***************************************************************************)
(* The other requests on a data model's graph.  create_relationship is     *)
(* followed statement group by statement group, like create_version; the   *)
(* requests that do all their work before their one db.commit() are one    *)
(* action each, response and db.close() included.                          *)
(***************************************************************************)
get_entity_by_id(d, entity_id, user_id) ==
    IF entity_id \notin DOMAIN d.entities THEN "HTTP_404_NOT_FOUND"
    ELSE get_data_model_by_id(d, d.entities[entity_id].data_model_id, user_id)

get_attribute_by_id(d, attribute_id, user_id) ==
    IF attribute_id \notin DOMAIN d.attributes THEN "HTTP_404_NOT_FOUND"
    ELSE get_entity_by_id(d, d.attributes[attribute_id].entity_id, user_id)

get_relationship_by_id(d, relationship_id, user_id) ==
    IF relationship_id \notin DOMAIN d.relationships THEN "HTTP_404_NOT_FOUND"
    ELSE get_data_model_by_id(d, d.relationships[relationship_id].data_model_id,
                              user_id)

EndpointsRejected_OnlyIfBoth(source_entity, target_entity, model_id) ==
    source_entity.data_model_id # model_id /\ target_entity.data_model_id # model_id

\* if source_entity.data_model_id != model_id or
\*    target_entity.data_model_id != model_id: raise HTTPException(400)
EndpointsRejected(source_entity, target_entity, model_id) ==
    source_entity.data_model_id # model_id \/ target_entity.data_model_id # model_id

\* if source_attr.entity_id != relationship_data.source_entity_id: raise ...
\* if target_attr.entity_id != relationship_data.target_entity_id: raise ...
MappingRejected(source_attr, target_attr, relationship_data) ==
    \/ source_attr.entity_id # relationship_data.source_entity_id
    \/ target_attr.entity_id # relationship_data.target_entity_id

\* Relationship(**relationship_data.dict(exclude={"attribute_mappings"}),
\*              data_model_id=model_id)
NewRelationship(relationship_data, model_id) ==
    [data_model_id |-> model_id, name |-> "owns", description |-> "owner",
     source_entity_id |-> relationship_data.source_entity_id,
     target_entity_id |-> relationship_data.target_entity_id,
     relationship_type |-> "one_to_one", identifying |-> FALSE,
     cardinality_source |-> "1", cardinality_target |-> "1",
     verbalize_source_to_target |-> "owns",
     verbalize_target_to_source |-> "is owned by", metadata |-> "meta-new"]

\* source_entity = get_entity_by_id(...); target_entity = get_entity_by_id(...);
\* the check of the endpoints; db.add(relationship); db.flush()
CreateRelationship(s, model_id, relationship_data, user_id) ==
    LET r == [IdleSession EXCEPT !.model_id = model_id, !.user_id = user_id,
                                 !.call = ncalls[s] + 1,
                                 !.relationship_data = relationship_data]
        source == get_entity_by_id(db, relationship_data.source_entity_id, user_id)
        target == get_entity_by_id(db, relationship_data.target_entity_id, user_id)
        new_id == FreshId(s, r)
        w == [inserted |->
                 [EmptyTables EXCEPT !.relationships =
                     new_id :> NewRelationship(relationship_data, model_id)],
              updated |-> {}]
        after == AfterFlush(db, tx[s], w)
    IN  /\ ses[s].pc = "idle"
        /\ Calls < MaxCalls
        /\ ncalls' = [ncalls EXCEPT ![s] = @ + 1]
        /\ IF source # "ok" \/ target # "ok"
           THEN /\ ses' = [ses EXCEPT ![s] =
                       [r EXCEPT !.pc = "raised",
                                 !.error = IF source # "ok" THEN source ELSE target]]
                /\ UNCHANGED <<db, tx>>
           ELSE IF EndpointsRejected(db.entities[relationship_data.source_entity_id],
                                     db.entities[relationship_data.target_entity_id],
                                     model_id)
           THEN /\ ses' = [ses EXCEPT ![s] =
                       [r EXCEPT !.pc = "raised", !.error = "HTTP_400_BAD_REQUEST"]]
                /\ UNCHANGED <<db, tx>>
           ELSE /\ db' = after.db
                /\ tx' = [tx EXCEPT ![s] = after.tx]
                /\ ses' = [ses EXCEPT ![s] =
                       [r EXCEPT !.pc = IF relationship_data.attribute_mappings = <<>>
                                        THEN "commit" ELSE "mappings",
                                 !.new_rel_id = new_id, !.k = @ + 1,
                                 !.attribute_mappings =
                                     relationship_data.attribute_mappings]]
        /\ UNCHANGED <<projects, versionVars, profilingVars, storeVars>>

\* for mapping_data in relationship_data.attribute_mappings: the two
\* get_attribute_by_id, the two checks, mapping = RelationshipAttributeMapping(...)
\* (a name the module does not bind), db.add(mapping)
MapAttributes(s) ==
    LET r == ses[s]
        mapping_data == Head(r.attribute_mappings)
        source == get_attribute_by_id(Visible(s), mapping_data.source_attribute_id,
                                      r.user_id)
        target == get_attribute_by_id(Visible(s), mapping_data.target_attribute_id,
                                      r.user_id)
        new_id == FreshId(s, r)
        w == [inserted |->
                 [EmptyTables EXCEPT !.relationship_attributes =
                     new_id :> [relationship_id |-> r.new_rel_id,
                                source_attribute_id |->
                                    mapping_data.source_attribute_id,
                                target_attribute_id |->
                                    mapping_data.target_attribute_id]],
              updated |-> {}]
        after == AfterFlush(db, tx[s], w)
    IN  /\ r.pc = "mappings"
        /\ IF source # "ok" \/ target # "ok"
           THEN /\ ses' = [ses EXCEPT ![s] =
                       [r EXCEPT !.pc = "raised",
                                 !.error = IF source # "ok" THEN source ELSE target]]
                /\ UNCHANGED <<db, tx>>
           ELSE IF MappingRejected(
                       Visible(s).attributes[mapping_data.source_attribute_id],
                       Visible(s).attributes[mapping_data.target_attribute_id],
                       r.relationship_data)
           THEN /\ ses' = [ses EXCEPT ![s] =
                       [r EXCEPT !.pc = "raised", !.error = "HTTP_400_BAD_REQUEST"]]
                /\ UNCHANGED <<db, tx>>
           ELSE IF "RelationshipAttributeMapping" \notin ServiceNames
           THEN /\ ses' = [ses EXCEPT ![s] =
                       [r EXCEPT !.pc = "raised", !.error = "NameError"]]
                /\ UNCHANGED <<db, tx>>
           ELSE /\ db' = after.db
                /\ tx' = [tx EXCEPT ![s] = after.tx]
                /\ ses' = [ses EXCEPT ![s] =
                       [r EXCEPT !.pc = IF Tail(r.attribute_mappings) = <<>>
                                        THEN "commit" ELSE "mappings",
                                 !.k = @ + 1, !.attribute_mappings = Tail(@)]]
        /\ UNCHANGED <<projects, ncalls, versionVars, profilingVars, storeVars>>

\* the rows of table f other than those of S
Without(f, S) == Restrict(f, DOMAIN f \ S)

\* the identity of the k-th row a one-action request of session s makes
NewId(s, k) == <<s, ncalls[s] + 1, k>>

\* Endpoint create_entity: get_data_model_by_id, then create_entity: the
\* entity, its attributes (create_attribute each), db.commit().
CreateEntity(s, model_id, user_id, with_attribute) ==
    LET entity_id == NewId(s, 1)
        attributes == IF with_attribute
                      THEN NewId(s, 2) :>
                               SeedAttribute(entity_id, "sku", "VARCHAR", FALSE, 1)
                      ELSE EmptyMap
    IN  /\ ses[s].pc = "idle"
        /\ Calls < MaxCalls
        /\ ncalls' = [ncalls EXCEPT ![s] = @ + 1]
        /\ db' = IF get_data_model_by_id(db, model_id, user_id) = "ok"
                 THEN [db EXCEPT
                          !.entities = (entity_id :>
                              SeedEntity(model_id, "product", "products", 70)) @@ @,
                          !.attributes = attributes @@ @]
                 ELSE db
        /\ UNCHANGED <<projects, ses, tx, versionVars, profilingVars, storeVars>>

\* Endpoint create_attribute: get_entity_by_id, then create_attribute.
CreateAttribute(s, entity_id, user_id) ==
    /\ ses[s].pc = "idle"
    /\ Calls < MaxCalls
    /\ ncalls' = [ncalls EXCEPT ![s] = @ + 1]
    /\ db' = IF get_entity_by_id(db, entity_id, user_id) = "ok"
             THEN [db EXCEPT !.attributes = (NewId(s, 1) :>
                      SeedAttribute(entity_id, "note", "VARCHAR", FALSE, 9)) @@ @]
             ELSE db
    /\ UNCHANGED <<projects, ses, tx, versionVars, profilingVars, storeVars>>

\* update_relationship: RelationshipUpdate has no field for the data model or
\* the endpoints; the request sets the name.
UpdateRelationship(s, relationship_id, user_id) ==
    /\ ses[s].pc = "idle"
    /\ Calls < MaxCalls
    /\ ncalls' = [ncalls EXCEPT ![s] = @ + 1]
    /\ db' = IF get_relationship_by_id(db, relationship_id, user_id) = "ok"
             THEN [db EXCEPT !.relationships[relationship_id].name = "renamed"]
             ELSE db
    /\ UNCHANGED <<projects, ses, tx, versionVars, profilingVars, storeVars>>

\* delete_entity: db.delete(entity) deletes the entity's attributes with it
\* (cascade="all, delete-orphan").  source_relationships, target_relationships
\* and the attributes' source_mappings and target_mappings have no delete
\* cascade: the flush sets the foreign key of each such row to NULL, the column
\* is NOT NULL, so db.commit() raises IntegrityError and nothing is deleted.
DeleteEntity(s, entity_id, user_id) ==
    LET attributes == AttributesOf(db, entity_id)
        referenced ==
            \/ \E r \in DOMAIN db.relationships :
                  entity_id \in {db.relationships[r].source_entity_id,
                                 db.relationships[r].target_entity_id}
            \/ \E m \in DOMAIN db.relationship_attributes :
                  {db.relationship_attributes[m].source_attribute_id,
                   db.relationship_attributes[m].target_attribute_id}
                      \cap attributes # {}
    IN  /\ ses[s].pc = "idle"
        /\ Calls < MaxCalls
        /\ ncalls' = [ncalls EXCEPT ![s] = @ + 1]
        /\ db' = IF get_entity_by_id(db, entity_id, user_id) = "ok" /\ ~referenced
                 THEN [db EXCEPT !.entities = Without(@, {entity_id}),
                                 !.attributes = Without(@, attributes)]
                 ELSE db
        /\ UNCHANGED <<projects, ses, tx, versionVars, profilingVars, storeVars>>

\* delete_attribute: as delete_entity, for the attribute's mappings
DeleteAttribute(s, attribute_id, user_id) ==
    LET referenced ==
            \E m \in DOMAIN db.relationship_attributes :
                attribute_id \in {db.relationship_attributes[m].source_attribute_id,
                                  db.relationship_attributes[m].target_attribute_id}
    IN  /\ ses[s].pc = "idle"
        /\ Calls < MaxCalls
        /\ ncalls' = [ncalls EXCEPT ![s] = @ + 1]
        /\ db' = IF get_attribute_by_id(db, attribute_id, user_id) = "ok"
                    /\ ~referenced
                 THEN [db EXCEPT !.attributes = Without(@, {attribute_id})]
                 ELSE db
        /\ UNCHANGED <<projects, ses, tx, versionVars, profilingVars, storeVars>>

\* delete_relationship: the relationship and its attribute_mappings
\* (cascade="all, delete-orphan")
DeleteRelationship(s, relationship_id, user_id) ==
    /\ ses[s].pc = "idle"
    /\ Calls < MaxCalls
    /\ ncalls' = [ncalls EXCEPT ![s] = @ + 1]
    /\ db' = IF get_relationship_by_id(db, relationship_id, user_id) = "ok"
             THEN [db EXCEPT
                      !.relationships = Without(@, {relationship_id}),
                      !.relationship_attributes =
                          Without(@, MappingsOf(db, relationship_id))]
             ELSE db
    /\ UNCHANGED <<projects, ses, tx, versionVars, profilingVars, storeVars>>

\* The RelationshipCreate bodies a request may carry: endpoints among the
\* seeded entities, and at most two attribute mappings: A1 -> A3 (right
\* between E1 and E2), A3 -> A3 (source attribute not of E1) and A1 -> A4
\* (target attribute not of E2).
MappingData ==
    { [source_attribute_id |-> A1, target_attribute_id |-> A3],
      [source_attribute_id |-> A3, target_attribute_id |-> A3],
      [source_attribute_id |-> A1, target_attribute_id |-> A4] }

RelationshipData ==
    [source_entity_id : {E1, E3}, target_entity_id : {E2, E3},
     attribute_mappings : UNION {[1..n -> MappingData] : n \in 0..2}]

GraphStep(s) ==
    \/ \E model_id \in Requestable, user_id \in Users, with_attribute \in BOOLEAN :
          CreateEntity(s, model_id, user_id, with_attribute)
    \/ \E entity_id \in DOMAIN db.entities \cup {NoSuchId}, user_id \in Users :
          CreateAttribute(s, entity_id, user_id)
    \/ \E model_id \in Requestable, relationship_data \in RelationshipData,
          user_id \in Users :
          CreateRelationship(s, model_id, relationship_data, user_id)
    \/ MapAttributes(s)
    \/ \E relationship_id \in DOMAIN db.relationships \cup {NoSuchId},
          user_id \in Users : UpdateRelationship(s, relationship_id, user_id)
    \/ \E entity_id \in DOMAIN db.entities \cup {NoSuchId}, user_id \in Users :
          DeleteEntity(s, entity_id, user_id)
    \/ \E attribute_id \in DOMAIN db.attributes \cup {NoSuchId}, user_id \in Users :
          DeleteAttribute(s, attribute_id, user_id)
    \/ \E relationship_id \in DOMAIN db.relationships \cup {NoSuchId},
          user_id \in Users : DeleteRelationship(s, relationship_id, user_id)

\* The graphs the service itself leaves behind: R1 from E1 to E2, with no
\* mapping or with A1 -> A3 and A2 -> A3.  The project is private: requests of
\* its owner pass the access check, requests of anyone else do not.
InitGraph ==
    /\ \E g \in SeedGraphs :
          /\ g.target = E2
          /\ g.mappings \subseteq {SeedId(1), SeedId(2)}
          /\ db = SeedDb(g)
    /\ projects \in {p \in SeedProjects : ~p[P1].is_public /\ p[P1].members = {}}
    /\ ses = [s \in Sessions |-> IdleSession]
    /\ tx = [s \in Sessions |-> EmptyTx]
    /\ ncalls = [s \in Sessions |-> 0]
    /\ NoVersionCall
    /\ NoImport

\* every request of the service on a model's graph, one request at a time:
\* one worker serves them all
Worker == CHOOSE s \in Sessions : TRUE

NextGraph == Step(Worker) \/ GraphStep(Worker)

SpecGraph == InitGraph /\ [][NextGraph]_vars

\* requests of create_data_model, one at a time; the last db.commit() of
\* create_data_model is Commit, a failure of it StorageError
NextCreate ==
    \/ \E project_id \in DOMAIN projects \cup {NoSuchId}, user_id \in Users,
          entities \in EntityLists :
          CreateDataModel(Worker, project_id, user_id, entities)
    \/ AddEntity(Worker)
    \/ AddAttribute(Worker)
    \/ CommitEntity(Worker)
    \/ EntityError(Worker)
    \/ Commit(Worker)
    \/ StorageError(Worker)
    \/ Close(Worker)

SpecCreate == InitGraph /\ [][NextCreate]_vars

(***************************************************************************)
(* The dataset import of backend/app.py.                                   *)
(*                                                                         *)
(* A cell is [kind, tenths]: a missing cell (empty CSV field, JSON null,   *)
(* blank Excel cell; NaN, None or NaT in the DataFrame), an integer, a     *)
(* real number, a text or a date.  Numbers are held in tenths, so that 1,  *)
(* 1.0 and 1.5 are 10, 10 and 15.  A string of the program is a sequence   *)
(* of characters; None is the empty sequence, which no str() returns.      *)
(***************************************************************************)
None == <<>>

\* a key the dictionary does not hold
Absent == <<"absent">>

Missing == [kind |-> "missing", tenths |-> 0]

Integer(n) == [kind |-> "int", tenths |-> 10 * n]

Real(tenths) == [kind |-> "real", tenths |-> tenths]

\* the k-th text of Letters; the field tenths numbers it
Word(k) == [kind |-> "text", tenths |-> k]

Text == Word(0)

Date == [kind |-> "date", tenths |-> 0]

\* what a cell of an uploaded file may hold
FileCells == {Missing, Integer(1), Integer(2), Real(15), Text, Date}

IsNull(cell) == cell.kind = "missing"

\* the set of the non-missing values of a sequence of cells
NonNull(cells) == {cells[i] : i \in {j \in 1..Len(cells) : ~IsNull(cells[j])}}

\* df = pd.read_csv(file_path) / pd.read_json(file_path) / pd.read_excel(file_path),
\* for one column of the file: the dtype the loader settles on and the cells
\* as that dtype holds them.  Integers only and no gap: int64.  Numbers only
\* (a gap is NaN, an integer next to a NaN or a real number is stored as a
\* float; a column of gaps only is float64 too): float64.  Dates only:
\* read_excel gives datetime64[ns] (a gap is NaT), read_csv and read_json (for
\* a column whose name is not date-like) keep the text.  Anything else, and a
\* column without rows: object.
ReadColumn(file_ext, cells) ==
    LET kinds == {c.kind : c \in NonNull(cells)}
        AsFloat(c) == IF c.kind = "int" THEN Real(c.tenths) ELSE c
        AsText(c) == IF c.kind = "date" THEN [c EXCEPT !.kind = "datetext"] ELSE c
    IN  IF cells = <<>> THEN [dtype |-> "object", values |-> cells]
        ELSE IF kinds = {"int"} /\ \A i \in 1..Len(cells) : ~IsNull(cells[i])
        THEN [dtype |-> "int64", values |-> cells]
        ELSE IF kinds \subseteq {"int", "real"}
        THEN [dtype |-> "float64",
              values |-> [i \in 1..Len(cells) |-> AsFloat(cells[i])]]
        ELSE IF kinds = {"date"} /\ file_ext \in {"xlsx", "xls"}
        THEN [dtype |-> "datetime64[ns]", values |-> cells]
        ELSE IF file_ext \in {"xlsx", "xls"}
        THEN [dtype |-> "object", values |-> cells]
        ELSE [dtype |-> "object",
              values |-> [i \in 1..Len(cells) |-> AsText(cells[i])]]

\* the DataFrame of a file: its columns; read_json of a file without records
\* has no column at all
ReadFrame(f) ==
    IF f.file_ext = "json" /\ \A i \in 1..Len(f.columns) : f.columns[i] = <<>>
    THEN <<>>
    ELSE [i \in 1..Len(f.columns) |-> ReadColumn(f.file_ext, f.columns[i])]

Letters == <<"x", "a", "b", "c", "d", "e", "f", "g">>

\* str(x) of a value a DataFrame holds (the numbers of the model are >= 0)
Str(cell) ==
    CASE cell.kind = "int" -> StrOfInt(cell.tenths \div 10)
      [] cell.kind = "real" ->
             StrOfInt(cell.tenths \div 10) \o <<".">> \o StrOfInt(cell.tenths % 10)
      [] cell.kind = "text" -> <<Letters[cell.tenths + 1]>>
      [] cell.kind = "datetext" -> <<"2", "0", "2", "4", "-", "0", "1", "-", "0", "1">>
      [] cell.kind = "date" ->
             <<"2", "0", "2", "4", "-", "0", "1", "-", "0", "1", " ",
               "0", "0", ":", "0", "0", ":", "0", "0">>
      [] OTHER -> <<"n", "a", "n">>

\* df[col].count()
Count(col) == Len(SelectSeq(col.values, LAMBDA c : ~IsNull(c)))

\* df[col].isnull().sum()
NullCount(col) == Len(SelectSeq(col.values, IsNull))

NUnique_CountsNaN(col) ==
    Cardinality({col.values[i] : i \in 1..Len(col.values)})

\* df[col].nunique()
NUnique(col) == Cardinality(NonNull(col.values))

\* df[col].isnull().all(): true of a column without rows
AllNull(col) == NonNull(col.values) = {}

\* df[col].min() and df[col].max() of a column with a non-missing value
Min(col) == CHOOSE x \in NonNull(col.values) :
                \A y \in NonNull(col.values) : x.tenths <= y.tenths

Max(col) == CHOOSE x \in NonNull(col.values) :
                \A y \in NonNull(col.values) : y.tenths <= x.tenths

\* df[col].mean(), as the ratio <<numerator, denominator>>
Mean(col) ==
    LET RECURSIVE Sum(_)
        Sum(cells) == IF cells = <<>> THEN 0
                      ELSE Head(cells).tenths + Sum(Tail(cells))
    IN  <<Sum(col.values), 10 * Count(col)>>

\* round(n / total * 100, 1) in tenths of a percent.  Below 16 rows the value
\* is never half-way between two tenths.
Percent(n, total) ==
    LET q == (1000 * n) \div total
        rest == (1000 * n) % total
    IN  IF 2 * rest > total THEN q + 1 ELSE q

\* pd.api.types.is_integer_dtype / is_float_dtype / is_datetime64_dtype
DataType(dtype) ==
    IF dtype = "int64" THEN "INTEGER"
    ELSE IF dtype = "float64" THEN "FLOAT"
    ELSE IF dtype = "datetime64[ns]" THEN "TIMESTAMP"
    ELSE "VARCHAR"

SchemaOfColumn_NoGuard(col) ==
    [nullable |-> \E i \in 1..Len(col.values) : IsNull(col.values[i]),
     data_type |-> DataType(col.dtype), unique_values |-> NUnique(col),
     min_value |-> IF AllNull(col) THEN Str(Missing) ELSE Str(Min(col)),
     max_value |-> IF AllNull(col) THEN Str(Missing) ELSE Str(Max(col)),
     avg_value |-> None, missing_count |-> NullCount(col)]

SchemaOfColumn_NullableIfAllNull(col) ==
    [nullable |-> AllNull(col), data_type |-> DataType(col.dtype),
     unique_values |-> NUnique(col), min_value |-> None, max_value |-> None,
     avg_value |-> None, missing_count |-> NullCount(col)]

\* the body of infer_schema's loop
SchemaOfColumn(col) ==
    LET data_type == DataType(col.dtype)
        stat(x) == IF AllNull(col) THEN None ELSE x
    IN  [nullable |-> \E i \in 1..Len(col.values) : IsNull(col.values[i]),
         data_type |-> data_type,
         unique_values |-> NUnique(col),
         min_value |-> IF data_type = "VARCHAR" THEN None ELSE stat(Str(Min(col))),
         max_value |-> IF data_type = "VARCHAR" THEN None ELSE stat(Str(Max(col))),
         avg_value |-> IF data_type \in {"INTEGER", "FLOAT"} THEN stat(Mean(col))
                       ELSE None,
         missing_count |-> NullCount(col)]

infer_schema(frame) == [i \in 1..Len(frame) |-> SchemaOfColumn(frame[i])]

\* the orders in which a sort leaves values of equal count: Series.sort_values
\* sorts with numpy's quicksort, which promises no order among equal keys.
\* A sort that happens to be stable keeps them as first seen in the column;
\* one that sorts ascending and reverses the result leaves them the other way
\* round.
TieOrders == {"first_seen", "last_seen"}

\* the row of the first occurrence of a value
FirstRow(col, v) == CHOOSE i \in 1..Len(col.values) :
                       /\ col.values[i] = v
                       /\ \A j \in 1..(i - 1) : col.values[j] # v

Occurrences(col, v) == Len(SelectSeq(col.values, LAMBDA c : c = v))

\* df[col].value_counts(): the distinct non-missing values with the number of
\* their occurrences, by descending count
value_counts(col) ==
    LET keys == NonNull(col.values)
        Before(w, v) ==
            \/ Occurrences(col, w) > Occurrences(col, v)
            \/ /\ Occurrences(col, w) = Occurrences(col, v)
               /\ IF tie_order = "first_seen"
                  THEN FirstRow(col, w) < FirstRow(col, v)
                  ELSE FirstRow(col, w) > FirstRow(col, v)
        Rank(v) == Cardinality({w \in keys : Before(w, v)})
    IN  [i \in 1..Cardinality(keys) |->
            LET v == CHOOSE x \in keys : Rank(x) = i - 1
            IN  <<v, Occurrences(col, v)>>]

\* .head(n)
head(s, n) == SubSeq(s, 1, IF Len(s) < n THEN Len(s) ELSE n)

\* {str(k): int(v) for k, v in value_counts.items()}: a dict keeps its keys in
\* the order of insertion (no two values of a column of the model have the
\* same str)
top_values(counts) == [i \in 1..Len(counts) |-> <<Str(counts[i][1]), counts[i][2]>>]

ProfileOfColumn_NoGuard(col) ==
    LET type == DataType(col.dtype)
        total_rows == Len(col.values)
        stat(x) == IF AllNull(col) THEN Str(Missing) ELSE x
    IN  [type |-> type,
         completeness |-> IF total_rows > 0 THEN Percent(Count(col), total_rows)
                          ELSE 1000,
         uniqueness |-> IF total_rows > 0 THEN Percent(NUnique(col), total_rows)
                        ELSE 1000,
         min |-> IF type = "VARCHAR" THEN Absent ELSE stat(Str(Min(col))),
         max |-> IF type = "VARCHAR" THEN Absent ELSE stat(Str(Max(col))),
         top_values |-> IF type = "VARCHAR" /\ ~AllNull(col)
                        THEN top_values(head(value_counts(col), 5))
                        ELSE <<>>]

ProfileOfColumn_PerNonNull(col) ==
    [type |-> DataType(col.dtype),
     completeness |-> IF Len(col.values) > 0
                      THEN Percent(Count(col), Len(col.values)) ELSE 1000,
     uniqueness |-> IF Count(col) > 0
                    THEN Percent(NUnique(col), Count(col)) ELSE 1000,
     min |-> Absent, max |-> Absent, top_values |-> <<>>]

\* the body of get_profiling_data's loop; top_values holds the pairs
\* <<str(value), count>> in the dict's order, and is empty when the key is
\* not set
ProfileOfColumn(col) ==
    LET type == DataType(col.dtype)
        total_rows == Len(col.values)
        stat(x) == IF AllNull(col) THEN None ELSE x
    IN  [type |-> type,
         completeness |-> IF total_rows > 0 THEN Percent(Count(col), total_rows)
                          ELSE 1000,
         uniqueness |-> IF total_rows > 0 THEN Percent(NUnique(col), total_rows)
                        ELSE 1000,
         min |-> IF type = "VARCHAR" THEN Absent ELSE stat(Str(Min(col))),
         max |-> IF type = "VARCHAR" THEN Absent ELSE stat(Str(Max(col))),
         top_values |-> IF type = "VARCHAR" /\ ~AllNull(col)
                        THEN top_values(head(value_counts(col), 5))
                        ELSE <<>>]

get_profiling_data(frame) ==
    [row_count |-> IF frame = <<>> THEN 0 ELSE Len(frame[1].values),
     column_count |-> Len(frame),
     columns |-> [i \in 1..Len(frame) |-> ProfileOfColumn(frame[i])]]

(***************************************************************************)
(* import_dataset on an uploaded file of two columns and at most MaxRows   *)
(* rows: the first column holds any cells, the second is all text or all   *)
(* integers.  file.pc is the request's position: "saved" after             *)
(* file.save(file_path), then "loaded", "schema" and "profiled".           *)
(***************************************************************************)
MaxRows == 4

\* ALLOWED_EXTENSIONS
FileExts == {"csv", "json", "xlsx", "xls"}

Files ==
    UNION {[file_ext : FileExts,
            columns : {<<c, [i \in 1..n |-> other]>> :
                          c \in [1..n -> FileCells], other \in {Text, Integer(2)}},
            pc : {"saved"}, dataset_id : {1}] : n \in 0..MaxRows}

\* file.save(file_path): the upload is in UPLOAD_FOLDER, nothing of it is in
\* the tables
Saved ==
    /\ datasets = {}
    /\ columns = {}
    /\ uploads = {file.dataset_id}
    /\ conn = NoRows
    /\ response = NoResponse

InitImport ==
    /\ file \in Files
    /\ df = <<>>
    /\ schema = <<>>
    /\ profile = <<>>
    /\ tie_order \in TieOrders
    /\ Saved
    /\ ServiceIdle
    /\ NoVersionCall

\* df = pd.read_csv(file_path) / pd.read_json(file_path) / pd.read_excel(file_path)
ReadFile ==
    /\ file.pc = "saved"
    /\ df' = ReadFrame(file)
    /\ file' = [file EXCEPT !.pc = "loaded"]
    /\ UNCHANGED <<schema, profile, tie_order, serviceVars, versionVars, storeVars>>

\* schema = infer_schema(df)
InferSchema ==
    /\ file.pc = "loaded"
    /\ schema' = infer_schema(df)
    /\ file' = [file EXCEPT !.pc = "schema"]
    /\ UNCHANGED <<df, profile, tie_order, serviceVars, versionVars, storeVars>>

GetProfilingData_DropsMissing ==
    /\ file.pc = "schema"
    /\ df' = [i \in 1..Len(df) |->
                 [df[i] EXCEPT !.values = SelectSeq(@, LAMBDA c : ~IsNull(c))]]
    /\ profile' = get_profiling_data(df')
    /\ file' = [file EXCEPT !.pc = "profiled"]
    /\ UNCHANGED <<schema, tie_order, serviceVars, versionVars, storeVars>>

\* profile = get_profiling_data(df)
GetProfilingData ==
    /\ file.pc = "schema"
    /\ profile' = get_profiling_data(df)
    /\ file' = [file EXCEPT !.pc = "profiled"]
    /\ UNCHANGED <<df, schema, tie_order, serviceVars, versionVars, storeVars>>

SpecImport == InitImport /\ [][ReadFile \/ InferSchema \/ GetProfilingData]_vars

(***************************************************************************)
(* import_dataset and delete_dataset, one request after the other.  After  *)
(* get_profiling_data the import goes on at file.pc = "profiled": the      *)
(* INSERT into datasets ("inserting"), one INSERT into columns for each    *)
(* col_info of the schema, conn.commit() ("imported").  An exception at    *)
(* any statement of the try block ends the request at "failed".            *)
(***************************************************************************)
MaxImports == 2

\* dataset_id = str(uuid.uuid4()): an id no request had before
NextDatasetId == file.dataset_id + 1

\* the uploads of the requests: files of Files of at most one row
StoredFiles ==
    {f \in Files : /\ f.file_ext \in {"csv", "json"}
                    /\ f.columns[1] \in {<<>>, <<Missing>>, <<Integer(1)>>}}

\* import_dataset up to file.save(file_path)
Upload(f) ==
    /\ file.pc \in {"none", "imported", "failed"}
    /\ NextDatasetId <= MaxImports
    /\ file' = [f EXCEPT !.dataset_id = NextDatasetId]
    /\ uploads' = uploads \cup {NextDatasetId}
    /\ df' = <<>>
    /\ schema' = <<>>
    /\ profile' = <<>>
    /\ response' = NoResponse
    /\ UNCHANGED <<datasets, columns, conn, tie_order, serviceVars, versionVars>>

\* cursor.execute('INSERT INTO datasets ...')
InsertDataset ==
    /\ file.pc = "profiled"
    /\ conn' = [conn EXCEPT !.datasets =
                   @ \cup {[id |-> file.dataset_id, file_path |-> file.dataset_id,
                            file_type |-> file.file_ext, schema |-> schema]}]
    /\ file' = [file EXCEPT !.pc = "inserting"]
    /\ UNCHANGED <<df, schema, profile, tie_order, datasets, columns, uploads,
                   response, serviceVars, versionVars>>

\* for col_info in schema: cursor.execute('INSERT INTO columns ...'); the
\* column's name is its place in the file
InsertColumn ==
    /\ file.pc = "inserting"
    /\ Cardinality(conn.columns) < Len(schema)
    /\ LET k == Cardinality(conn.columns) + 1
       IN  conn' = [conn EXCEPT !.columns =
                       @ \cup {[id |-> <<file.dataset_id, k>>,
                                dataset_id |-> file.dataset_id,
                                name |-> k, col_info |-> schema[k]]}]
    /\ UNCHANGED <<file, df, schema, profile, tie_order, datasets, columns,
                   uploads, response, serviceVars, versionVars>>

\* conn.commit() and the response
CommitImport ==
    /\ file.pc = "inserting"
    /\ Cardinality(conn.columns) = Len(schema)
    /\ datasets' = datasets \cup conn.datasets
    /\ columns' = columns \cup conn.columns
    /\ conn' = NoRows
    /\ response' = [request |-> "import", id |-> file.dataset_id,
                    status |-> 200, body |-> "dataset"]
    /\ file' = [file EXCEPT !.pc = "imported"]
    /\ UNCHANGED <<df, schema, profile, tie_order, uploads, serviceVars, versionVars>>

ImportFails_KeepsFile ==
    /\ file.pc \in {"saved", "loaded", "schema", "profiled", "inserting"}
    /\ conn' = NoRows
    /\ response' = [request |-> "import", id |-> 0, status |-> 500, body |-> file.pc]
    /\ file' = [file EXCEPT !.pc = "failed"]
    /\ UNCHANGED <<df, schema, profile, tie_order, datasets, columns, uploads,
                   serviceVars, versionVars>>

\* except Exception as e: a statement of the try block raised.  The loader
\* raises on a file it cannot parse, infer_schema and get_profiling_data on
\* values nunique cannot hash, json.dumps(schema) on a value it cannot
\* serialise (a schema with a column holds numpy's bool_ under 'nullable'),
\* sqlite3 on a value it cannot bind and on a locked or full database.
\* Leaving the with block by an exception rolls the connection back; the
\* handler removes the file and answers 500 with str(e), here the statement
\* that raised.
ImportFails ==
    /\ file.pc \in {"saved", "loaded", "schema", "profiled", "inserting"}
    /\ conn' = NoRows
    /\ uploads' = uploads \ {file.dataset_id}
    /\ response' = [request |-> "import", id |-> 0, status |-> 500, body |-> file.pc]
    /\ file' = [file EXCEPT !.pc = "failed"]
    /\ UNCHANGED <<df, schema, profile, tie_order, datasets, columns,
                   serviceVars, versionVars>>

DeleteDataset_KeepsColumns(dataset_id) ==
    /\ file.pc # "inserting"
    /\ datasets' = {d \in datasets : d.id # dataset_id}
    /\ uploads' = uploads \ {dataset_id}
    /\ response' = [request |-> "delete", id |-> dataset_id, status |-> 200,
                    body |-> "success"]
    /\ UNCHANGED <<columns, conn, profilingVars, serviceVars, versionVars>>

\* delete_dataset(dataset_id); it waits while another connection holds the
\* write lock of the database
DeleteDataset(dataset_id) ==
    /\ file.pc # "inserting"
    /\ LET result == {d \in datasets : d.id = dataset_id}
       IN  IF result = {}
           THEN /\ response' = [request |-> "delete", id |-> dataset_id,
                                status |-> 404, body |-> "Dataset not found"]
                /\ UNCHANGED <<datasets, columns, uploads>>
           ELSE /\ columns' = {c \in columns : c.dataset_id # dataset_id}
                /\ datasets' = datasets \ result
                /\ uploads' = uploads \ {d.file_path : d \in result}
                /\ response' = [request |-> "delete", id |-> dataset_id,
                                status |-> 200, body |-> "success"]
    /\ UNCHANGED <<conn, profilingVars, serviceVars, versionVars>>

InitDatasets ==
    /\ NoImport
    /\ ServiceIdle
    /\ NoVersionCall

NextDatasets ==
    \/ \E f \in StoredFiles : Upload(f)
    \/ ReadFile
    \/ InferSchema
    \/ GetProfilingData
    \/ InsertDataset
    \/ InsertColumn
    \/ CommitImport
    \/ ImportFails
    \/ \E dataset_id \in 0..MaxImports : DeleteDataset(dataset_id)

SpecDatasets == InitDatasets /\ [][NextDatasets]_vars

(***************************************************************************)
(* import_dataset on a file of one column of texts, with more distinct     *)
(* texts than top_values keeps.  A column is listed once for each pattern  *)
(* of repetition: its first text is Word(1), and a text not seen before is *)
(* the next of Letters.                                                    *)
(***************************************************************************)
MaxWords == 7

WordColumns(n) ==
    LET Seen(s) == Cardinality({s[i].tenths : i \in 1..Len(s)} \ {0})
        Fresh(s) == IF Seen(s) < 6 THEN Seen(s) + 1 ELSE 6
        RECURSIVE Grown(_)
        Grown(k) ==
            IF k = 0 THEN {<<>>}
            ELSE UNION {{Append(s, c) : c \in {Missing} \cup {Word(j) : j \in 1..Fresh(s)}} :
                           s \in Grown(k - 1)}
    IN  Grown(n)

TextFiles ==
    UNION {[file_ext : {"csv", "xlsx"}, columns : {<<c>> : c \in WordColumns(n)},
            pc : {"saved"}, dataset_id : {1}] : n \in 0..MaxWords}

InitTopValues ==
    /\ file \in TextFiles
    /\ df = <<>>
    /\ schema = <<>>
    /\ profile = <<>>
    /\ tie_order \in TieOrders
    /\ Saved
    /\ ServiceIdle
    /\ NoVersionCall

SpecTopValues == InitTopValues /\ [][ReadFile \/ InferSchema \/ GetProfilingData]_vars

(***************************************************************************)
(* Properties of create_version.                                           *)
(***************************************************************************)
\* the root of a model's lineage, following parent_model_id
RECURSIVE RootOf(_, _)
RootOf(d, m) ==
    IF d.data_models[m].parent_model_id = NullId THEN m
    ELSE RootOf(d, d.data_models[m].parent_model_id)

\* the models create_version has made: those with a parent
Versions(d) ==
    {m \in DOMAIN d.data_models : d.data_models[m].parent_model_id # NullId}

ParentOf(d, m) == d.data_models[m].parent_model_id

AttributesOfModel(d, m) == UNION {AttributesOf(d, e) : e \in EntitiesOf(d, m)}

MappingsOfModel(d, m) == UNION {MappingsOf(d, r) : r \in RelationshipsOf(d, m)}

\* the relationships of m the copy keeps: both endpoints are entities of m
CopyableRelationships(d, m) ==
    {r \in RelationshipsOf(d, m) :
        /\ d.relationships[r].source_entity_id \in EntitiesOf(d, m)
        /\ d.relationships[r].target_entity_id \in EntitiesOf(d, m)}

\* the attribute mappings of m the copy keeps
CopyableMappings(d, m) ==
    {x \in UNION {MappingsOf(d, r) : r \in CopyableRelationships(d, m)} :
        /\ d.relationship_attributes[x].source_attribute_id \in AttributesOfModel(d, m)
        /\ d.relationship_attributes[x].target_attribute_id \in AttributesOfModel(d, m)}

\* the data-model graph invariants of model m
ValidGraph(d, m) ==
    /\ \A r \in RelationshipsOf(d, m) :
          /\ d.relationships[r].source_entity_id \in EntitiesOf(d, m)
          /\ d.relationships[r].target_entity_id \in EntitiesOf(d, m)
          /\ \A x \in MappingsOf(d, r) :
                /\ d.relationship_attributes[x].source_attribute_id
                       \in AttributesOf(d, d.relationships[r].source_entity_id)
                /\ d.relationship_attributes[x].target_attribute_id
                       \in AttributesOf(d, d.relationships[r].target_entity_id)

SameCounts(d, n, m) ==
    /\ Cardinality(EntitiesOf(d, n)) = Cardinality(EntitiesOf(d, m))
    /\ Cardinality(AttributesOfModel(d, n)) = Cardinality(AttributesOfModel(d, m))
    /\ Cardinality(RelationshipsOf(d, n)) = Cardinality(RelationshipsOf(d, m))
    /\ Cardinality(MappingsOfModel(d, n)) = Cardinality(MappingsOfModel(d, m))

\* C1: after any sequence of successful create_version calls, at most one
\* model of a lineage (the models with a common root under parent_model_id)
\* has is_latest_version = TRUE.
C1_AtMostOneLatestPerLineage ==
    \A m1, m2 \in DOMAIN db.data_models :
        /\ m1 # m2
        /\ RootOf(db, m1) = RootOf(db, m2)
        /\ db.data_models[m1].is_latest_version
        => ~db.data_models[m2].is_latest_version

\* C2: two create_version requests that overlap on one source model, both
\* having read it as the current latest, never both commit a model that is
\* marked latest.
C2_ConcurrentVersionsOneLatest ==
    \A s, t \in Sessions :
        /\ s # t
        /\ ses[s].pc = "returned"
        /\ ses[t].pc = "returned"
        /\ ses[s].model_id = ses[t].model_id
        /\ ses[s].source_model.is_latest_version
        /\ ses[t].source_model.is_latest_version
        => ~ /\ db.data_models[ses[s].new_model_id].is_latest_version
             /\ db.data_models[ses[t].new_model_id].is_latest_version

\* C3: every committed state holds a version either not at all or whole: with
\* the copy of every entity, attribute, kept relationship and kept attribute
\* mapping of its source, and with the source's is_latest_version cleared.
C3_CommittedVersionsAreWhole ==
    \A n \in Versions(db) :
        LET m == ParentOf(db, n)
        IN  /\ ~db.data_models[m].is_latest_version
            /\ Cardinality(EntitiesOf(db, n)) = Cardinality(EntitiesOf(db, m))
            /\ Cardinality(AttributesOfModel(db, n))
                   = Cardinality(AttributesOfModel(db, m))
            /\ Cardinality(RelationshipsOf(db, n))
                   = Cardinality(CopyableRelationships(db, m))
            /\ Cardinality(MappingsOfModel(db, n))
                   = Cardinality(CopyableMappings(db, m))

\* C3 witness: a whole version with entities, attributes and a relationship is
\* committed while another request has flushed only part of its copy.
C3_Witness ==
    \E n \in Versions(db) : \E s \in Sessions :
        /\ Cardinality(EntitiesOf(db, n)) = 2
        /\ Cardinality(AttributesOfModel(db, n)) = 3
        /\ Cardinality(RelationshipsOf(db, n)) = 1
        /\ ses[s].pc = "entities"
        /\ DOMAIN tx[s].inserted.entities # {}

\* C4: a step of a request that is not its successful commit leaves the
\* committed state as it is, and closing the session of a failed request
\* discards everything the request flushed.
C4_FailureLeavesCommittedState ==
    [][\A s \in Sessions :
          (ses'[s] # ses[s] /\ ses'[s].pc # "returned")
          => /\ db' = db
             /\ (ses'[s].pc = "idle" => tx'[s] = EmptyTx)]_vars

\* C4 witness: a request failed after flushing the flag flip, the new model, an
\* entity and an attribute; the committed source is still the latest version
\* and no version is committed.
C4_Witness ==
    \E s \in Sessions :
        /\ ses[s].pc = "raised"
        /\ ses[s].error \in {"StorageError", "NameError"}
        /\ ses[s].model_id \in tx[s].updated
        /\ DOMAIN tx[s].inserted.entities # {}
        /\ DOMAIN tx[s].inserted.attributes # {}
        /\ db.data_models[ses[s].model_id].is_latest_version
        /\ Versions(db) = {}

\* the requester may not see the project of model m: the project is not
\* public and the requester is neither its owner nor a member
AccessDenied(m, user_id) ==
    LET project == projects[db.data_models[m].project_id]
    IN  /\ ~project.is_public
        /\ project.owner_id # user_id
        /\ user_id \notin project.members

\* C5: a request for a model that does not exist ends with 404 and one for a
\* model of a project the requester may not see ends with 403, in both cases
\* with nothing flushed.
C5_NotFoundAndAccessDenied ==
    \A s \in Sessions :
        LET r == ses[s]
        IN  /\ (r.pc # "idle" /\ r.model_id = NoSuchId)
               => (r.pc = "raised" /\ r.error = "HTTP_404_NOT_FOUND"
                   /\ tx[s] = EmptyTx)
            /\ (r.pc # "idle" /\ r.model_id # NoSuchId
                    /\ AccessDenied(r.model_id, r.user_id))
               => (r.pc = "raised" /\ r.error = "HTTP_403_FORBIDDEN"
                   /\ tx[s] = EmptyTx)

\* C6: create_version of a model whose graph satisfies the graph invariants,
\* when no storage error strikes, returns a new model with as many entities,
\* attributes, relationships and attribute mappings as the source.
C6_CopyKeepsCounts ==
    \A s \in Sessions :
        LET r == ses[s]
        IN  (/\ r.pc \in {"returned", "raised"}
             /\ r.source_model # NoModel
             /\ r.error # "StorageError"
             /\ ValidGraph(db, r.model_id))
            => /\ r.pc = "returned"
               /\ SameCounts(db, r.new_model_id, r.model_id)

\* the tables as committed and as each session sees them
Views == {db} \cup {Visible(s) : s \in Sessions}

\* C7: every relationship of a version connects entities of that version, and
\* every attribute mapping of such a relationship maps attributes of entities
\* of that version, whatever the source graph held.
C7_NewEndpointsInNewModel ==
    \A d \in Views : \A n \in Versions(d) : \A r \in RelationshipsOf(d, n) :
        /\ d.relationships[r].source_entity_id \in EntitiesOf(d, n)
        /\ d.relationships[r].target_entity_id \in EntitiesOf(d, n)
        /\ \A x \in MappingsOf(d, r) :
              /\ d.relationship_attributes[x].source_attribute_id
                     \in AttributesOfModel(d, n)
              /\ d.relationship_attributes[x].target_attribute_id
                     \in AttributesOfModel(d, n)

\* C7 witness: a version is committed with the copy of a relationship whose
\* source held an attribute mapping to an attribute outside the model, which
\* was skipped.
C7_Witness ==
    \E n \in Versions(db) :
        /\ RelationshipsOf(db, n) # {}
        /\ MappingsOfModel(db, n) = {}
        /\ \E x \in MappingsOfModel(db, ParentOf(db, n)) :
              db.relationship_attributes[x].target_attribute_id
                  \notin AttributesOfModel(db, ParentOf(db, n))

\* C8: no identity of the graph a request builds is an identity of the source
\* graph, and no foreign key of the new graph other than parent_model_id
\* points at an object of the source graph.
C8_NewGraphIsDisjoint ==
    \A s \in Sessions :
        LET r == ses[s]
            d == Visible(s)
            n == r.new_model_id
            m == r.model_id
        IN  n # NullId =>
            /\ n # m
            /\ d.data_models[n].parent_model_id = m
            /\ Range(r.entity_id_map) \cap EntitiesOf(d, m) = {}
            /\ Range(r.attribute_id_map) \cap AttributesOfModel(d, m) = {}
            /\ \A e \in Range(r.entity_id_map) : d.entities[e].data_model_id # m
            /\ \A a \in Range(r.attribute_id_map) :
                  d.attributes[a].entity_id \notin EntitiesOf(d, m)
            /\ \A x \in RelationshipsOf(d, n) :
                  /\ x \notin RelationshipsOf(d, m)
                  /\ d.relationships[x].source_entity_id \notin EntitiesOf(d, m)
                  /\ d.relationships[x].target_entity_id \notin EntitiesOf(d, m)
            /\ \A x \in MappingsOfModel(d, n) :
                  /\ x \notin MappingsOfModel(d, m)
                  /\ d.relationship_attributes[x].source_attribute_id
                         \notin AttributesOfModel(d, m)
                  /\ d.relationship_attributes[x].target_attribute_id
                         \notin AttributesOfModel(d, m)

\* C8 witness: a request returned a version with two entities, three
\* attributes and a relationship, all committed.
C8_Witness ==
    \E s \in Sessions :
        /\ ses[s].pc = "returned"
        /\ Cardinality(DOMAIN ses[s].entity_id_map) = 2
        /\ Cardinality(DOMAIN ses[s].attribute_id_map) = 3
        /\ RelationshipsOf(db, ses[s].new_model_id) # {}

SameScalars(new, old) ==
    /\ new.name = old.name
    /\ new.description = old.description
    /\ new.model_type = old.model_type
    /\ new.project_id = old.project_id
    /\ new.database_dialect = old.database_dialect
    /\ new.layout_data = old.layout_data
    /\ new.metadata = old.metadata
    /\ new.tags = old.tags

Committed(s) == ses[s].pc = "commit" /\ ses'[s].pc = "returned"

\* C10: right after a successful create_version the source model is not the
\* latest version, the new model is, and the new model's parent is the source.
C10_FlagsAfterVersion ==
    [][\A s \in Sessions :
          Committed(s)
          => /\ ~db'.data_models[ses[s].model_id].is_latest_version
             /\ db'.data_models[ses[s].new_model_id].is_latest_version
             /\ db'.data_models[ses[s].new_model_id].parent_model_id
                    = ses[s].model_id]_vars

\* C10 witness: a request returned, its source is committed as not latest and
\* its new model as latest with the source as parent.
C10_Witness ==
    \E s \in Sessions :
        /\ ses[s].pc = "returned"
        /\ ~db.data_models[ses[s].model_id].is_latest_version
        /\ db.data_models[ses[s].new_model_id].is_latest_version
        /\ db.data_models[ses[s].new_model_id].parent_model_id = ses[s].model_id

(***************************************************************************)
(* Properties of _increment_version.                                       *)
(***************************************************************************)
\* the three dot-separated parts of a string with exactly two dots
Part(str, n) ==
    LET d1 == CHOOSE i \in DotPositions(str) : \A j \in DotPositions(str) : i <= j
        d2 == CHOOSE i \in DotPositions(str) : \A j \in DotPositions(str) : j <= i
    IN  CASE n = 1 -> SubSeq(str, 1, d1 - 1)
          [] n = 2 -> SubSeq(str, d1 + 1, d2 - 1)
          [] n = 3 -> SubSeq(str, d2 + 1, Len(str))

\* MAJOR.MINOR.PATCH, every part a non-empty run of digits
HasThreeIntegerParts(str) ==
    /\ Cardinality(DotPositions(str)) = 2
    /\ \A n \in 1..3 : AllDigits(Part(str, n))

\* C11: for every input, _increment_version returns "1.0.0" for an unset
\* version; for MAJOR.MINOR.PATCH with all-integer parts the same MAJOR and
\* MINOR and PATCH plus one; for a string that parses as a single integer that
\* integer plus one; and for any other non-empty string the string followed by
\* "-new".
C11_IncrementRules ==
    version_out # NoReturn =>
        IF version_in = <<>>
        THEN version_out = <<"1", ".", "0", ".", "0">>
        ELSE IF HasThreeIntegerParts(version_in)
        THEN /\ HasThreeIntegerParts(version_out)
             /\ ParseInt(Part(version_out, 1)) = ParseInt(Part(version_in, 1))
             /\ ParseInt(Part(version_out, 2)) = ParseInt(Part(version_in, 2))
             /\ ParseInt(Part(version_out, 3)) = ParseInt(Part(version_in, 3)) + 1
        ELSE IF IsIntLiteral(version_in)
        THEN /\ IsIntLiteral(version_out)
             /\ IntOf(version_out) = IntOf(version_in) + 1
        ELSE version_out = version_in \o <<"-", "n", "e", "w">>

(***************************************************************************)
(* Properties of the requests on a model's graph.                          *)
(***************************************************************************)
\* C12: after any sequence of create_entity, create_attribute,
\* create_relationship, update_relationship, delete_entity, delete_attribute,
\* delete_relationship and create_version, every relationship's source and
\* target entity belong to the relationship's data model, and every attribute
\* mapping's source attribute belongs to the relationship's source entity and
\* its target attribute to the relationship's target entity.
C12_GraphIntegrity ==
    /\ \A r \in DOMAIN db.relationships :
          db.relationships[r].data_model_id \in DOMAIN db.data_models
    /\ \A x \in DOMAIN db.relationship_attributes :
          db.relationship_attributes[x].relationship_id \in DOMAIN db.relationships
    /\ \A m \in DOMAIN db.data_models : ValidGraph(db, m)

\* a relationship made by create_relationship has been copied by
\* create_version into a version that also holds other requests' work
C12_Witness ==
    \E r \in DOMAIN db.relationships :
        /\ db.relationships[r].name = "owns"
        /\ db.data_models[db.relationships[r].data_model_id].parent_model_id
               # NullId

\* the request of session s is a create_relationship whose endpoints exist and
\* are open to the caller, as are the attributes its mappings name, and
\* an endpoint is not in the given model or a mapping names an attribute that
\* is not of the respective endpoint
Offending(s) ==
    LET r == ses[s]
        data == r.relationship_data
        mapped == {data.attribute_mappings[i] : i \in 1..Len(data.attribute_mappings)}
    IN  /\ data # NoRelationshipData
        /\ get_entity_by_id(db, data.source_entity_id, r.user_id) = "ok"
        /\ get_entity_by_id(db, data.target_entity_id, r.user_id) = "ok"
        /\ \A x \in mapped :
              /\ get_attribute_by_id(db, x.source_attribute_id, r.user_id) = "ok"
              /\ get_attribute_by_id(db, x.target_attribute_id, r.user_id) = "ok"
        /\ \/ db.entities[data.source_entity_id].data_model_id # r.model_id
           \/ db.entities[data.target_entity_id].data_model_id # r.model_id
           \/ \E x \in mapped :
                 \/ db.attributes[x.source_attribute_id].entity_id
                        # data.source_entity_id
                 \/ db.attributes[x.target_attribute_id].entity_id
                        # data.target_entity_id

\* C13: create_relationship rejects (400) a request with an endpoint outside
\* the given model or with a mapping whose attribute is not of the respective
\* endpoint, and after the rejection neither the relationship nor any of its
\* attribute mappings exists, those before the offending one included.
C13_OffendingRequestRejected ==
    \A s \in Sessions :
        Offending(s) =>
            /\ ses[s].pc \notin {"commit", "returned"}
            /\ ses[s].pc = "raised" =>
                  /\ ses[s].error = "HTTP_400_BAD_REQUEST"
                  /\ ses[s].new_rel_id \notin DOMAIN db.relationships
                  /\ \A x \in DOMAIN db.relationship_attributes :
                        db.relationship_attributes[x].relationship_id
                            # ses[s].new_rel_id

(***************************************************************************)
(* Properties of infer_schema and get_profiling_data.                      *)
(***************************************************************************)
\* both functions have returned
Profiled == file.pc = "profiled"

\* the columns of the DataFrame
Columns == 1..Len(df)

\* the type the first matching rule gives to the cells of a column of the file
FirstMatch(cells) ==
    LET kinds == {c.kind : c \in NonNull(cells)}
    IN  IF kinds \subseteq {"int"} THEN "INTEGER"
        ELSE IF kinds \subseteq {"int", "real"} THEN "FLOAT"
        ELSE IF kinds \subseteq {"date"} THEN "TIMESTAMP"
        ELSE "VARCHAR"

\* C14: each column gets exactly one of INTEGER, FLOAT, TIMESTAMP, VARCHAR, by
\* first match on its own non-missing values (all integers, else all real
\* numbers, else all dates, else VARCHAR), whatever the other columns hold.
\* (Columns without a non-missing value are the subject of C15.)
C14_TypeByFirstMatch ==
    Profiled =>
        \A i \in Columns :
            NonNull(file.columns[i]) # {} =>
                /\ schema[i].data_type = FirstMatch(file.columns[i])
                /\ profile.columns[i].type = FirstMatch(file.columns[i])

\* C15: a column with at least one row and no non-missing value is VARCHAR and
\* nullable, however the loader holds its missing cells.
C15_AllMissingIsVarchar ==
    Profiled =>
        \A i \in Columns :
            Len(file.columns[i]) >= 1 /\ NonNull(file.columns[i]) = {} =>
                /\ schema[i].data_type = "VARCHAR"
                /\ profile.columns[i].type = "VARCHAR"
                /\ schema[i].nullable

\* C16: a column of integers with at least one missing value is INTEGER with
\* min and max written as integers, and [1, 2, 2, null] gives INTEGER,
\* nullable, missing_count 1, unique_value_count 2, min "1", max "2", mean 1.5,
\* completeness 75.0 and uniqueness 50.0.
C16_IntegersWithMissing ==
    Profiled =>
        \A i \in Columns :
            LET cells == file.columns[i]
            IN  /\ ( /\ NonNull(cells) # {}
                     /\ \A c \in NonNull(cells) : c.kind = "int"
                     /\ \E j \in 1..Len(cells) : IsNull(cells[j]) ) =>
                        /\ schema[i].data_type = "INTEGER"
                        /\ profile.columns[i].type = "INTEGER"
                        /\ AllDigits(schema[i].min_value)
                        /\ AllDigits(schema[i].max_value)
                        /\ AllDigits(profile.columns[i].min)
                        /\ AllDigits(profile.columns[i].max)
                /\ cells = <<Integer(1), Integer(2), Integer(2), Missing>> =>
                        /\ schema[i].nullable
                        /\ schema[i].missing_count = 1
                        /\ schema[i].unique_values = 2
                        /\ schema[i].min_value = <<"1">>
                        /\ schema[i].max_value = <<"2">>
                        /\ schema[i].avg_value # None
                        /\ 2 * schema[i].avg_value[1] = 3 * schema[i].avg_value[2]
                        /\ profile.columns[i].completeness = 750
                        /\ profile.columns[i].uniqueness = 500

\* C17: infer_schema reports nullable exactly for the columns with a missing
\* value: nullable = (missing_count > 0).
C17_NullableIffMissing ==
    file.pc \in {"schema", "profiled"} =>
        \A i \in Columns : schema[i].nullable = (schema[i].missing_count > 0)

\* a nullable column beside a column that is not
C17_Witness ==
    /\ file.pc = "schema"
    /\ \E i, j \in Columns :
          /\ schema[i].nullable /\ schema[i].missing_count = 2
          /\ ~schema[j].nullable

\* C18: missing_count (of infer_schema) plus the non-missing count (of
\* get_profiling_data's completeness) is the row count, and the unique count
\* is a count of non-missing values, never above the non-missing count.
C18_CountsAddUp ==
    Profiled =>
        \A i \in Columns :
            /\ schema[i].missing_count + Count(df[i]) = profile.row_count
            /\ profile.columns[i].completeness =
                   IF profile.row_count = 0 THEN 1000
                   ELSE Percent(profile.row_count - schema[i].missing_count,
                                profile.row_count)
            /\ schema[i].unique_values <= Count(df[i])
            /\ schema[i].unique_values = Cardinality(NonNull(file.columns[i]))

\* a column with missing values and with a repeated value
C18_Witness ==
    /\ Profiled
    /\ \E i \in Columns :
          /\ schema[i].missing_count = 1
          /\ schema[i].unique_values = 2
          /\ Count(df[i]) = 3

\* x (tenths of a percent) is 100 * n / total rounded to one decimal
IsRounded(x, n, total) ==
    /\ 2 * (x * total - 1000 * n) <= total
    /\ 2 * (1000 * n - x * total) <= total

\* a statistic that is null: None, or a key the profile does not hold
IsNullStat(x) == x \in {None, Absent}

\* C19: completeness is 100 * non-missing / rows and uniqueness is
\* 100 * unique / rows, each rounded to one decimal and within 0..100; with no
\* row both are 100 and every statistic of every column is null.
C19_Percentages ==
    Profiled =>
        \A i \in Columns :
            LET p == profile.columns[i]
                rows == Len(file.columns[i])
                present == rows - Len(SelectSeq(file.columns[i], IsNull))
                unique == Cardinality({Str(c) : c \in NonNull(df[i].values)})
            IN  /\ p.completeness \in 0..1000
                /\ p.uniqueness \in 0..1000
                /\ rows > 0 => /\ IsRounded(p.completeness, present, rows)
                               /\ IsRounded(p.uniqueness, unique, rows)
                /\ rows = 0 => /\ p.completeness = 1000
                               /\ p.uniqueness = 1000
                               /\ IsNullStat(p.min)
                               /\ IsNullStat(p.max)
                               /\ p.top_values = <<>>

\* two of three cells present, one value: 66.7 and 33.3
C19_Witness ==
    /\ Profiled
    /\ \E i \in Columns :
          /\ profile.columns[i].completeness = 667
          /\ profile.columns[i].uniqueness = 333

\* C20: for a column whose every value is missing, min, max and mean are null
\* and the unique count is 0, in infer_schema and in get_profiling_data,
\* whatever the column's type.
C20_AllMissingStatistics ==
    Profiled =>
        \A i \in Columns :
            Len(file.columns[i]) >= 1 /\ NonNull(file.columns[i]) = {} =>
                /\ schema[i].min_value = None
                /\ schema[i].max_value = None
                /\ schema[i].avg_value = None
                /\ schema[i].unique_values = 0
                /\ IsNullStat(profile.columns[i].min)
                /\ IsNullStat(profile.columns[i].max)
                /\ profile.columns[i].top_values = <<>>
                /\ profile.columns[i].uniqueness = 0

\* an all-missing column that was not typed VARCHAR
C20_Witness ==
    /\ Profiled
    /\ \E i \in Columns :
          /\ Len(df[i].values) = 3
          /\ AllNull(df[i])
          /\ schema[i].data_type = "FLOAT"
          /\ profile.columns[i].min = None

\* C21: for a VARCHAR column min, max and mean are null and top_values holds
\* at most 5 entries, the most frequent distinct non-missing values with
\* their exact counts, by descending count and, among equal counts, in the
\* order of first occurrence; no value left out has a higher count than one
\* kept.
C21_TopValues ==
    Profiled =>
        \A i \in Columns :
            schema[i].data_type = "VARCHAR" =>
                LET cells == df[i].values
                    top == profile.columns[i].top_values
                    count(k) == Len(SelectSeq(cells, LAMBDA c : ~IsNull(c) /\ Str(c) = k))
                    first(k) == CHOOSE r \in 1..Len(cells) :
                                    /\ ~IsNull(cells[r]) /\ Str(cells[r]) = k
                                    /\ \A q \in 1..(r - 1) :
                                           IsNull(cells[q]) \/ Str(cells[q]) # k
                    all == {Str(c) : c \in NonNull(cells)}
                    kept == {top[j][1] : j \in 1..Len(top)}
                IN  /\ schema[i].min_value = None
                    /\ schema[i].max_value = None
                    /\ schema[i].avg_value = None
                    /\ IsNullStat(profile.columns[i].min)
                    /\ IsNullStat(profile.columns[i].max)
                    /\ Len(top) <= 5
                    /\ Len(top) = Cardinality(kept)
                    /\ kept \subseteq all
                    /\ Cardinality(all) <= 5 => kept = all
                    /\ Cardinality(all) > 5 => Len(top) = 5
                    /\ \A j \in 1..Len(top) : top[j][2] = count(top[j][1])
                    /\ \A k \in all \ kept : \A j \in 1..Len(top) : count(k) <= top[j][2]
                    /\ \A j \in 1..Len(top), l \in 1..Len(top) :
                           j < l => \/ top[j][2] > top[l][2]
                                    \/ /\ top[j][2] = top[l][2]
                                       /\ first(top[j][1]) < first(top[l][1])

C29_SchemaAndProfileAgree ==
    Profiled =>
        \A i \in Columns :
            /\ schema[i].data_type = profile.columns[i].type
            /\ schema[i].data_type \in {"INTEGER", "FLOAT", "TIMESTAMP"} =>
                   /\ schema[i].min_value = profile.columns[i].min
                   /\ schema[i].max_value = profile.columns[i].max

\* a column of each of the three types, one of them without a value
C29_Witness ==
    /\ Profiled
    /\ \E i \in Columns : schema[i].data_type = "FLOAT" /\ AllNull(df[i])
                           /\ Len(df[i].values) = 2
    /\ \E i \in Columns : schema[i].data_type = "INTEGER"
                           /\ profile.columns[i].min = <<"2">>

C30_TablesConsistent ==
    /\ [](/\ \A c \in columns : \E d \in datasets : d.id = c.dataset_id
          /\ \A d \in datasets :
                 LET rows == {c \in columns : c.dataset_id = d.id}
                 IN  /\ Cardinality(rows) = Len(d.schema)
                     /\ \A k \in 1..Len(d.schema) :
                            \E c \in rows : c.name = k /\ c.col_info = d.schema[k])
    /\ [][(/\ response'.request = "delete"
            /\ response' # response
            /\ \A d \in datasets : d.id # response'.id)
           => /\ response'.status = 404
              /\ datasets' = datasets
              /\ columns' = columns
              /\ uploads' = uploads]_vars

\* one dataset of two columns is stored, another was deleted, and deleting it
\* again was answered not found
C30_Witness ==
    /\ \E d \in datasets : d.id = 2 /\ Len(d.schema) = 2
    /\ Cardinality(columns) = 2
    /\ uploads = {2}
    /\ response = [request |-> "delete", id |-> 1, status |-> 404,
                   body |-> "Dataset not found"]

\* C24: create_version creates no relationship and no attribute mapping
\* before every entity and every attribute of the source model is in the id
\* maps; so the turn of a relationship between two entities of the source
\* model always finds both in the map and creates its copy between their
\* copies.
C24_RelationshipsAfterMaps ==
    [][\A s \in Sessions :
          LET r == ses[s]
              d == Visible(s)
              new_rels == DOMAIN tx'[s].inserted.relationships
                              \ DOMAIN tx[s].inserted.relationships
              new_maps == DOMAIN tx'[s].inserted.relationship_attributes
                              \ DOMAIN tx[s].inserted.relationship_attributes
          IN  /\ new_rels \cup new_maps # {} =>
                     /\ DOMAIN r.entity_id_map = EntitiesOf(d, r.model_id)
                     /\ DOMAIN r.attribute_id_map = AttributesOfModel(d, r.model_id)
              /\ (/\ r.pc = "relationships"
                  /\ r.relationships # <<>>
                  /\ ses'[s].pc # "raised"
                  /\ ses'[s].relationships = Tail(r.relationships)
                  /\ Head(r.relationships) \in CopyableRelationships(d, r.model_id)) =>
                     \E x \in new_rels :
                         LET old == d.relationships[Head(r.relationships)]
                             new == tx'[s].inserted.relationships[x]
                         IN  /\ new.source_entity_id = r.entity_id_map[old.source_entity_id]
                             /\ new.target_entity_id = r.entity_id_map[old.target_entity_id]]_vars

\* a request has created the copy of a relationship whose target entity was
\* copied after its source entity
C24_Witness ==
    \E s \in Sessions :
        /\ ses[s].pc \in {"relationships", "commit"}
        /\ ses[s].model_id = M1
        /\ DOMAIN ses[s].entity_id_map = {E1, E2}
        /\ \E x \in DOMAIN tx[s].inserted.relationships :
              /\ tx[s].inserted.relationships[x].source_entity_id = ses[s].entity_id_map[E1]
              /\ tx[s].inserted.relationships[x].target_entity_id = ses[s].entity_id_map[E2]

GraphOf(d, m) ==
    [entities |-> Restrict(d.entities, EntitiesOf(d, m)),
     attributes |-> Restrict(d.attributes, AttributesOfModel(d, m)),
     relationships |-> Restrict(d.relationships, RelationshipsOf(d, m)),
     relationship_attributes |->
         Restrict(d.relationship_attributes, MappingsOfModel(d, m))]

\* a step of a create_version on model m changes nothing of the graph of m
\* and no field of m other than those of `fields`, and a change of the graph
\* of a version changes nothing of the model it was made from
FrameOfVersion(fields) ==
    /\ \A s \in Sessions :
          LET m == ses[s].model_id
          IN  (/\ ses[s].pc \in {"loaded", "entities", "relationships", "commit"}
               /\ ses[s].source_model # NoModel) =>
                  /\ m \in DOMAIN db'.data_models
                  /\ GraphOf(db', m) = GraphOf(db, m)
                  /\ GraphOf(Apply(db', tx'[s]), m) = GraphOf(Visible(s), m)
                  /\ \A f \in DOMAIN db.data_models[m] \ fields :
                         db'.data_models[m][f] = db.data_models[m][f]
    /\ \A n \in Versions(db) :
          GraphOf(db', n) # GraphOf(db, n) =>
              /\ GraphOf(db', ParentOf(db, n)) = GraphOf(db, ParentOf(db, n))
              /\ db'.data_models[ParentOf(db, n)] = db.data_models[ParentOf(db, n)]

\* C26 as claimed: no step of a create_version on model m changes the graph
\* of m or a field of m other than is_latest_version, in the committed tables
\* and in the request's own view; and a step that changes the graph of a
\* version changes neither the graph nor the row of the model it was made
\* from.
C26_SourceGraphUnchanged ==
    [][FrameOfVersion({"is_latest_version"})]_vars

\* C26 as amended: the same, for the fields of m other than is_latest_version
\* and updated_at.
C26_SourceUnchangedButTimestamp ==
    [][FrameOfVersion({"is_latest_version", "updated_at"})]_vars

\* a version of model 1 was committed, and afterwards its relationship was
\* renamed: model 1 has its relationship as seeded and is no longer the latest
C26_Witness ==
    \E n \in Versions(db) :
        /\ ParentOf(db, n) = M1
        /\ \E r \in RelationshipsOf(db, n) : db.relationships[r].name = "renamed"
        /\ db.relationships[R1].name = "places"
        /\ Cardinality(EntitiesOf(db, M1)) = 2
        /\ ~db.data_models[M1].is_latest_version
        /\ db.data_models[M1].updated_at = 1
        /\ db.data_models[M1].tags = {"core"}

(***************************************************************************)
(* The version lineage.                                                    *)
(***************************************************************************)
\* following parent_model_id from m, through models not in `seen`, ends at a
\* model without parent: it meets no model twice and no identity without row
RECURSIVE ReachesRoot(_, _, _)
ReachesRoot(d, m, seen) ==
    LET parent == d.data_models[m].parent_model_id
    IN  IF parent = NullId THEN TRUE
        ELSE IF parent \in seen \/ parent \notin DOMAIN d.data_models THEN FALSE
        ELSE ReachesRoot(d, parent, seen \cup {parent})

LineageIsAcyclic(d) == \A m \in DOMAIN d.data_models : ReachesRoot(d, m, {m})

\* C27: after any sequence of create_version calls, following parent_model_id
\* from any model reaches a model without parent in finitely many steps,
\* meeting no model twice: the lineage has no cycle and no model is its own
\* ancestor, in the committed tables and in what each session sees
\* inside its open transaction.
C27_LineageAcyclic ==
    /\ LineageIsAcyclic(db)
    /\ \A s \in Sessions : LineageIsAcyclic(Visible(s))

\* two committed create_version calls, the second on the version the first made
C27_Witness ==
    \E m \in Versions(db) :
        /\ ParentOf(db, m) \in Versions(db)
        /\ ParentOf(db, ParentOf(db, m)) \in DOMAIN db.data_models \ Versions(db)

(***************************************************************************)
(* Properties of create_data_model.                                        *)
(***************************************************************************)
\* the rows of the request session s serves that are committed
CommittedOfRequest(s) ==
    [data_models |-> {ses[s].new_model_id} \cap DOMAIN db.data_models,
     entities |-> EntitiesOf(db, ses[s].new_model_id),
     attributes |-> AttributesOfModel(db, ses[s].new_model_id)]

\* C28: create_data_model with a list of entities with attributes is atomic:
\* once creating an entity or attribute has failed, no data model, entity or
\* attribute of the request is committed, and while an entity or attribute
\* of the request is still to be created the model is not committed.
C28_CreateDataModelAtomic ==
    \A s \in Sessions :
        /\ ses[s].error = "EntityStorageError" =>
               CommittedOfRequest(s) =
                   [data_models |-> {}, entities |-> {}, attributes |-> {}]
        /\ ses[s].pc \in {"entity", "attribute"} =>
               ses[s].new_model_id \notin DOMAIN db.data_models

=============================================================================
